---------------------------- MODULE Spec2Model ----------------------------
(***************************************************************************)
(* A model of TagGUI's XMP sidecar generation:                             *)
(*   - utils/xmp_sidecar_generator.py   (XmpSidecarGenerator)              *)
(*   - utils/sidecar_generation_thread.py (SidecarGenerationThread)        *)
(*   - widgets/xmp_sidecar_generator.py (XmpSidecarGeneratorWidget)        *)
(* Strings are sequences of Unicode code points, so that lower(), strip(), *)
(* Path.stem and the surrogate/emoji scan are computed as the code does.   *)
(***************************************************************************)
EXTENDS Integers, Sequences, FiniteSets, TLC

(***************************************************************************)
(* Bounds of the model.                                                    *)
(***************************************************************************)
\* Largest batch of the small specifications (Spec, FairSpec).
MaxFiles == 2
\* Largest os.cpu_count() considered; 0 stands for None.
MaxCpu == 2
\* Size of the large batch of BatchSpec (one worker, uniform images).
BigBatch == 51
\* Longest output of the read tool, in lines (ParseSpec).
MaxLines == 3
\* Most threads the widget starts in one behaviour (WidgetSpec).
MaxRuns == 2

(***************************************************************************)
(* Program constants.                                                      *)
(***************************************************************************)
\* sidecar_generation_thread.py:33
BATCH_SIZE == 50
\* sidecar_generation_thread.py:49  min(8, os.cpu_count() or 1)
MaxPoolWorkers == 8
\* xmp_sidecar_generator.py:345  for i in range(3)
DeleteRetries == 3
\* widgets/xmp_sidecar_generator.py:21-22 and 229
GENERATE_BUTTON_TEXT == "Generate XMP Sidecars"
CANCEL_BUTTON_TEXT == "Cancel"
CANCELLING_BUTTON_TEXT == "Cancelling..."

(***************************************************************************)
(* Strings.                                                                *)
(***************************************************************************)
Min(a, b) == IF a < b THEN a ELSE b

\* str.lower() on one code point (ASCII letters; the model's other code
\* points have no lowercase form).
lower_char(c) == IF c >= 65 /\ c <= 90 THEN c + 32 ELSE c

\* A comparison that is sensitive to case: what the amended C25 rules out.
lower_as_typed(s) == s

lower(s) == [i \in 1..Len(s) |-> lower_char(s[i])]

\* Whitespace removed by str.strip(): the ASCII and Latin-1 characters for
\* which str.isspace() is true.
IsSpace(c) == c \in {9, 10, 11, 12, 13, 28, 29, 30, 31, 32, 133, 160}

RECURSIVE lstrip(_)
lstrip(s) == IF s # <<>> /\ IsSpace(Head(s)) THEN lstrip(Tail(s)) ELSE s

RECURSIVE rstrip(_)
rstrip(s) ==
    IF s # <<>> /\ IsSpace(s[Len(s)]) THEN rstrip(SubSeq(s, 1, Len(s) - 1)) ELSE s

strip(s) == rstrip(lstrip(s))

\* str.startswith
startswith(s, p) == Len(s) >= Len(p) /\ SubSeq(s, 1, Len(p)) = p

\* Range of a sequence.
Range(s) == {s[i] : i \in 1..Len(s)}

\* SelectSeq with the index kept: the subsequence of s at the positions in P.
RECURSIVE SubseqAt(_, _, _)
SubseqAt(s, P, i) ==
    IF i > Len(s) THEN <<>>
    ELSE (IF i \in P THEN <<s[i]>> ELSE <<>>) \o SubseqAt(s, P, i + 1)

\* String literals of the program, as code points.
STR_xmp == <<120, 109, 112>>                         \* "xmp"
STR_XMP == <<88, 77, 80>>                            \* "XMP"
STR_png == <<112, 110, 103>>                         \* "png"
STR_dot_xmp == <<46, 120, 109, 112>>                 \* ".xmp"
STR_DISABLED == <<68, 73, 83, 65, 66, 76, 69, 68>>   \* "DISABLED"

(***************************************************************************)
(* XmpSidecarGenerator._load_blacklist                                     *)
(***************************************************************************)
default_blacklist ==
    { <<98,108,117,114,114,121>>,                                   \* "blurry"
      <<108,111,119,32,113,117,97,108,105,116,121>>,                \* "low quality"
      <<98,97,100,32,113,117,97,108,105,116,121>>,                  \* "bad quality"
      <<119,111,114,115,116,32,113,117,97,108,105,116,121>>,        \* "worst quality"
      <<106,112,101,103,32,97,114,116,105,102,97,99,116,115>>,      \* "jpeg artifacts"
      <<119,97,116,101,114,109,97,114,107>>,                        \* "watermark"
      <<116,101,120,116>>,                                          \* "text"
      <<115,105,103,110,97,116,117,114,101>>,                       \* "signature"
      <<117,115,101,114,110,97,109,101>>,                           \* "username"
      <<108,111,103,111>>,                                          \* "logo"
      <<105,109,97,103,101>>,                                       \* "image"
      <<112,105,99,116,117,114,101>>,                               \* "picture"
      <<112,104,111,116,111>>,                                      \* "photo"
      <<97,114,116>>,                                               \* "art"
      <<97,114,116,119,111,114,107>>,                               \* "artwork"
      <<100,114,97,119,105,110,103>>,                               \* "drawing"
      <<112,97,105,110,116,105,110,103>>,                           \* "painting"
      <<100,105,103,105,116,97,108,32,97,114,116>>,                 \* "digital art"
      <<100,105,103,105,116,97,108,32,112,97,105,110,116,105,110,103>>, \* "digital painting"
      <<105,108,108,117,115,116,114,97,116,105,111,110>>,           \* "illustration"
      <<115,107,101,116,99,104>>,                                   \* "sketch"
      <<97,105,32,103,101,110,101,114,97,116,101,100>>,             \* "ai generated"
      <<97,114,116,105,102,105,99,105,97,108,32,105,110,116,101,108,108,105,103,101,110,99,101>>, \* "artificial intelligence"
      <<109,97,99,104,105,110,101,32,108,101,97,114,110,105,110,103>>, \* "machine learning"
      <<100,101,101,112,32,108,101,97,114,110,105,110,103>>,        \* "deep learning"
      <<110,101,117,114,97,108,32,110,101,116,119,111,114,107>>,    \* "neural network"
      <<103,97,110>>,                                               \* "gan"
      <<115,116,97,98,108,101,32,100,105,102,102,117,115,105,111,110>>, \* "stable diffusion"
      <<109,105,100,106,111,117,114,110,101,121>>,                  \* "midjourney"
      <<100,97,108,108,101>>,                                       \* "dalle"
      <<111,112,101,110,97,105>>,                                   \* "openai"
      <<97,117,116,111,109,97,116,105,99,49,49,49,49>> }            \* "automatic1111"

\* The blacklist file on disk: whether the path exists, whether open()/read
\* succeeds, and its lines (each as read by "for line in f", that is with
\* its line terminator).
NoBlacklistFile == [exists |-> FALSE, readable |-> TRUE, lines |-> <<>>]

\* The custom tags trimmed but not lowercased: what C17 rules out.
custom_tags_as_typed(custom_blacklist_tags) ==
    { strip(custom_blacklist_tags[i]) :
        i \in { j \in 1..Len(custom_blacklist_tags) :
                    strip(custom_blacklist_tags[j]) # <<>> } }

\* {tag.strip().lower() for tag in custom_blacklist_tags if tag.strip()}
custom_tags(custom_blacklist_tags) ==
    { lower(strip(custom_blacklist_tags[i])) :
        i \in { j \in 1..Len(custom_blacklist_tags) :
                    strip(custom_blacklist_tags[j]) # <<>> } }

\* {line.strip().lower() for line in f
\*      if line.strip() and not line.startswith('#')}
file_blacklist(lines) ==
    { lower(strip(lines[i])) :
        i \in { j \in 1..Len(lines) :
                    strip(lines[j]) # <<>> /\ ~startswith(lines[j], <<35>>) } }

\* _load_blacklist adding whatever was read of the file, whether or not the
\* reading succeeded: what C19 rules out.
_load_blacklist_keeps_partial_read(blacklist_file, custom_blacklist_tags, disk_file) ==
    IF blacklist_file = STR_DISABLED THEN {}
    ELSE LET with_custom ==
                 IF custom_blacklist_tags # <<>>
                 THEN default_blacklist \cup custom_tags(custom_blacklist_tags)
                 ELSE default_blacklist
         IN  IF blacklist_file # <<>>
             THEN with_custom \cup file_blacklist(disk_file.lines)
             ELSE with_custom

\* blacklist_file: <<>> stands for None (and for "", equally falsy);
\* custom_blacklist_tags: <<>> stands for None (and for [], equally falsy).
\* A file that does not exist, or whose reading raises, adds nothing.
_load_blacklist(blacklist_file, custom_blacklist_tags, disk_file) ==
    IF blacklist_file = STR_DISABLED THEN {}
    ELSE LET with_custom ==
                 IF custom_blacklist_tags # <<>>
                 THEN default_blacklist \cup custom_tags(custom_blacklist_tags)
                 ELSE default_blacklist
         IN  IF blacklist_file # <<>> /\ disk_file.exists /\ disk_file.readable
             THEN with_custom \cup file_blacklist(disk_file.lines)
             ELSE with_custom

(***************************************************************************)
(* XmpSidecarGenerator.filter_tags                                         *)
(***************************************************************************)
\* The test of filter_tags without lower(): what C16 rules out.
kept_positions_case_sensitive(tags, blacklist) ==
    { i \in 1..Len(tags) :
        LET tag_stripped == strip(tags[i])
        IN  tag_stripped # <<>> /\ tag_stripped \notin blacklist }

\* The positions of tags that filter_tags keeps.
kept_positions(tags, blacklist) ==
    { i \in 1..Len(tags) :
        LET tag_lower == strip(lower(tags[i]))
        IN  tag_lower # <<>> /\ tag_lower \notin blacklist }

\* A filter that drops the first tag it would keep: what C18 rules out.
filter_tags_drops_first_kept(tags, blacklist) ==
    LET kept == kept_positions(tags, blacklist)
    IN  SubseqAt(tags, {i \in kept : \E j \in kept : j < i}, 1)

filter_tags(tags, blacklist) == SubseqAt(tags, kept_positions(tags, blacklist), 1)

(***************************************************************************)
(* Paths: pathlib's name, stem and suffix, and the emoji scan.             *)
(***************************************************************************)
\* str.rfind('.') as a 1-based position, 0 when there is no dot.
RECURSIVE rfind_dot(_, _)
rfind_dot(name, i) ==
    IF i = 0 THEN 0 ELSE IF name[i] = 46 THEN i ELSE rfind_dot(name, i - 1)

\* PurePath.stem: the name up to its last dot, unless that dot is the first
\* or the last character.
stem(name) ==
    LET i == rfind_dot(name, Len(name))
    IN  IF i > 1 /\ i < Len(name) THEN SubSeq(name, 1, i - 1) ELSE name

\* PurePath.suffix
suffix(name) ==
    LET i == rfind_dot(name, Len(name))
    IN  IF i > 1 /\ i < Len(name) THEN SubSeq(name, i, Len(name)) ELSE <<>>

\* XmpSidecarGenerator._has_unicode_surrogates, on one code point.
is_problem_char(c) ==
    \/ c >= 55296 /\ c <= 57343       \* 0xD800-0xDFFF surrogates
    \/ c >= 128512 /\ c <= 128591     \* 0x1F600-0x1F64F emoticons
    \/ c >= 127744 /\ c <= 128511     \* 0x1F300-0x1F5FF symbols, pictographs
    \/ c >= 128640 /\ c <= 128767     \* 0x1F680-0x1F6FF transport and map
    \/ c >= 127456 /\ c <= 127487     \* 0x1F1E0-0x1F1FF regional indicators
    \/ c >= 9728 /\ c <= 9983         \* 0x2600-0x26FF misc symbols
    \/ c >= 9984 /\ c <= 10175        \* 0x2700-0x27BF dingbats
    \/ c >= 65024 /\ c <= 65039       \* 0xFE00-0xFE0F variation selectors
    \/ c >= 129280 /\ c <= 129535     \* 0x1F900-0x1F9FF supplemental symbols

_has_unicode_surrogates(filename) ==
    \E i \in 1..Len(filename) : is_problem_char(filename[i])

\* output_dir / f"{image_file.stem}.xmp", for an image path [dir, name].
sidecar_path(path) == [dir |-> path.dir, name |-> stem(path.name) \o STR_dot_xmp]


(***************************************************************************)
(* The disk, as far as generate_sidecar touches it.                        *)
(*                                                                         *)
(* disk maps a sidecar path to what is there: kind "absent", "old" (a file *)
(* that existed before the run), "new" (the complete output of the write   *)
(* invocation of unit `by`) or "partial" (output left behind by a write    *)
(* invocation of unit `by` that exited non-zero).                          *)
(* temps is the set of temporary files and directories currently on disk,  *)
(* each [unit, stage, what].                                               *)
(***************************************************************************)
Absent == [kind |-> "absent", by |-> 0]
Old == [kind |-> "old", by |-> 0]
Written(kind, unit) == [kind |-> kind, by |-> unit]

Temp(unit, stage, what) == [unit |-> unit, stage |-> stage, what |-> what]

(***************************************************************************)
(* The behaviour of the environment during one call of generate_sidecar:   *)
(*   unlink_fails  how many of the first attempts of xmp_file.unlink()     *)
(*                 raise (DeleteRetries: all of them)                      *)
(*   copy1_ok, copy2_ok  whether shutil.copy2 succeeds in the read stage   *)
(*                 and in the write stage                                  *)
(*   read_tool     exiftool in read mode: "ok", "fail"                     *)
(*                 (CalledProcessError),                                   *)
(*                 "missing" (FileNotFoundError) or "decode_error"         *)
(*                 (UnicodeDecodeError)                                    *)
(*   write_tool    exiftool in write mode: "ok" (exit 0, output written),  *)
(*                 "fail" (non-zero exit, no output), "fail_partial"       *)
(*                 (non-zero exit, output left behind), "missing"          *)
(*                 (FileNotFoundError), "raise" (another OSError)          *)
(*   move          the final replace: "ok", "unlink_fail" (unlinking the   *)
(*                 destination raises), "move_fail" (shutil.move raises)   *)
(*   cleanup_ok    whether temp_path.unlink() in _cleanup_temp_file works  *)
(* Faults that cannot occur for a file name are not enumerated for it.     *)
(***************************************************************************)
HealthyEnv ==
    [copy1_ok |-> TRUE, read_tool |-> "ok", copy2_ok |-> TRUE,
     write_tool |-> "ok", move |-> "ok", cleanup_ok |-> TRUE]

MissingToolEnv ==
    [copy1_ok |-> TRUE, read_tool |-> "missing", copy2_ok |-> TRUE,
     write_tool |-> "missing", move |-> "ok", cleanup_ok |-> TRUE]

AllEnvs(name) ==
    LET copies == IF _has_unicode_surrogates(name) THEN BOOLEAN ELSE {TRUE}
        temp_out == _has_unicode_surrogates(stem(name) \o STR_dot_xmp)
                        \/ _has_unicode_surrogates(name)
    IN  [copy1_ok : copies,
         read_tool : {"ok", "fail", "missing", "decode_error"},
         copy2_ok : copies,
         write_tool : {"ok", "fail", "fail_partial", "missing", "raise"},
         move : IF temp_out THEN {"ok", "unlink_fail", "move_fail"} ELSE {"ok"},
         cleanup_ok : copies]

\* The environments a run may meet, by the fault class of the run.
Envs(faults, name) ==
    CASE faults = "none" -> {HealthyEnv}
      [] faults = "tool_missing" -> {MissingToolEnv}
      [] faults = "write_stage" -> {e \in AllEnvs(name) : e.read_tool = "ok"}
      [] OTHER -> AllEnvs(name)

UnlinkFails(faults) == IF faults = "any" THEN 0..DeleteRetries ELSE {0}

\* Whether a pool worker may make a step while run() is at `at`.  With
\* timing "fast_loops" the loops of run() that only touch memory are over
\* before a worker, which runs the external tool, gets anywhere: no worker
\* step during the loop that cancels the futures, and no call returns
\* during the loop that submits them.  With "any" nothing is assumed.
worker_may_step(timing, at) == timing = "any" \/ at # "cancel"

worker_may_finish(timing, at) == timing = "any" \/ at \notin {"submit", "cancel"}

(***************************************************************************)
(* XmpSidecarGenerator._create_temp_copy_for_exiftool and                  *)
(* _cleanup_temp_file                                                      *)
(***************************************************************************)
\* A temporary copy reported as made when shutil.copy2 has failed and the
\* original path is what comes back: what C32 rules out.
_create_temp_copy_for_exiftool_claiming_a_copy(unit, stage, name, copy_ok) ==
    IF ~_has_unicode_surrogates(name)
    THEN [path |-> "original", was_copied |-> FALSE, made |-> {}]
    ELSE IF copy_ok
         THEN [path |-> "temp", was_copied |-> TRUE,
               made |-> {Temp(unit, stage, "dir"), Temp(unit, stage, "copy")}]
         ELSE [path |-> "original", was_copied |-> TRUE,
               made |-> {Temp(unit, stage, "dir")}]

\* Returns the path the tool is to be given (the image itself, "original",
\* or the copy, "temp"), was_copied and the temporary entries now on disk.
\* A copy that fails returns the original path and leaves the directory
\* made by mkdtemp.
_create_temp_copy_for_exiftool(unit, stage, name, copy_ok) ==
    IF ~_has_unicode_surrogates(name)
    THEN [path |-> "original", was_copied |-> FALSE, made |-> {}]
    ELSE IF copy_ok
         THEN [path |-> "temp", was_copied |-> TRUE,
               made |-> {Temp(unit, stage, "dir"), Temp(unit, stage, "copy")}]
         ELSE [path |-> "original", was_copied |-> FALSE,
               made |-> {Temp(unit, stage, "dir")}]

\* temp_path.unlink(), then rmdir() of its directory when the name of that
\* starts with 'tmp'; an exception is printed and swallowed.  left is what
\* remains of the temporary entries of (unit, stage); given the path of the
\* image, the unlink removes the image ("unlink_image") and the directory of
\* mkdtemp stays.
_cleanup_temp_file(unit, stage, temp_path, cleanup_ok) ==
    IF temp_path = "temp"
    THEN [left |-> IF cleanup_ok THEN {}
                   ELSE {Temp(unit, stage, "dir"), Temp(unit, stage, "copy")},
          ops |-> <<>>]
    ELSE [left |-> {Temp(unit, stage, "dir")},
          ops |-> IF cleanup_ok THEN <<"unlink_image">> ELSE <<>>]

(***************************************************************************)
(* XmpSidecarGenerator.read_existing_metadata, lines 186-304: the parsing  *)
(* of the lines exiftool printed.  Of the record it fills, existing_tags,  *)
(* hierarchical_subjects, faces and face_regions are modelled;             *)
(* all_metadata and gps_location, which no other field depends on, are     *)
(* not.                                                                    *)
(***************************************************************************)
STR_Keywords == <<75,101,121,119,111,114,100,115>>    \* "Keywords"
STR_Subject == <<83,117,98,106,101,99,116>>    \* "Subject"
STR_TagsList == <<84,97,103,115,76,105,115,116>>    \* "TagsList"
STR_HierarchicalSubject == <<72,105,101,114,97,114,99,104,105,99,97,108,83,117,98,106,101,99,116>>    \* "HierarchicalSubject"
STR_none == <<40,110,111,110,101,41>>    \* "(none)"
STR_http == <<104,116,116,112>>    \* "http"
STR_RegionName == <<82,101,103,105,111,110,78,97,109,101>>    \* "RegionName"
STR_RegionPersonDisplayName == <<82,101,103,105,111,110,80,101,114,115,111,110,68,105,115,112,108,97,121,78,97,109,101>>    \* "RegionPersonDisplayName"
STR_RegionRectangle == <<82,101,103,105,111,110,82,101,99,116,97,110,103,108,101>>    \* "RegionRectangle"
STR_RegionAreaX == <<82,101,103,105,111,110,65,114,101,97,88>>    \* "RegionAreaX"
STR_RegionAreaY == <<82,101,103,105,111,110,65,114,101,97,89>>    \* "RegionAreaY"
STR_RegionAreaW == <<82,101,103,105,111,110,65,114,101,97,87>>    \* "RegionAreaW"
STR_RegionAreaH == <<82,101,103,105,111,110,65,114,101,97,72>>    \* "RegionAreaH"
STR_RegionAppliedToDimensionsW == <<82,101,103,105,111,110,65,112,112,108,105,101,100,84,111,68,105,109,101,110,115,105,111,110,115,87>>    \* "RegionAppliedToDimensionsW"
STR_RegionAppliedToDimensionsH == <<82,101,103,105,111,110,65,112,112,108,105,101,100,84,111,68,105,109,101,110,115,105,111,110,115,72>>    \* "RegionAppliedToDimensionsH"
STR_RegionAppliedToDimensionsUnit == <<82,101,103,105,111,110,65,112,112,108,105,101,100,84,111,68,105,109,101,110,115,105,111,110,115,85,110,105,116>>    \* "RegionAppliedToDimensionsUnit"

\* `p in s` for strings.
contains(s, p) ==
    \E k \in 1..(Len(s) - Len(p) + 1) : SubSeq(s, k, k + Len(p) - 1) = p

\* str.replace('/', '|').
replace_slash(s) == [i \in 1..Len(s) |-> IF s[i] = 47 THEN 124 ELSE s[i]]

\* re.search(r':\s*(.+)', line) then group(1).strip(), on a stripped line:
\* the match starts at the first colon that has a character after it, and
\* only the first colon can have one; <<>> stands for no match.
colon_value(line) ==
    LET K == {k \in 1..Len(line) : line[k] = 58}
    IN  IF K = {} THEN <<>>
        ELSE LET k == CHOOSE x \in K : \A y \in K : x <= y
             IN  IF k = Len(line) THEN <<>>
                 ELSE strip(SubSeq(line, k + 1, Len(line)))

\* re.search(r'(?:n1|n2)\s*:\s*(.+)', line) then group(1).strip(): the
\* leftmost place where one of the names is followed by optional whitespace,
\* a colon and at least one character; <<>> stands for no match.
field_value(line, field_names) ==
    LET after(k, n) == lstrip(SubSeq(line, k + Len(n), Len(line)))
        hit(k, n) == /\ k + Len(n) - 1 <= Len(line)
                     /\ SubSeq(line, k, k + Len(n) - 1) = n
                     /\ Len(after(k, n)) > 1
                     /\ after(k, n)[1] = 58
        K == {k \in 1..Len(line) : \E n \in field_names : hit(k, n)}
    IN  IF K = {} THEN <<>>
        ELSE LET k == CHOOSE x \in K : \A y \in K : x <= y
                 n == CHOOSE x \in field_names : hit(k, x)
             IN  strip(Tail(after(k, n)))

\* str.split() on whitespace.
RECURSIVE split_ws(_)
split_ws(s) ==
    LET t == lstrip(s)
    IN  IF t = <<>> THEN <<>>
        ELSE LET stops == {k \in 1..Len(t) : IsSpace(t[k])}
                 e == IF stops = {} THEN Len(t) + 1
                      ELSE CHOOSE x \in stops : \A y \in stops : x <= y
             IN  <<SubSeq(t, 1, e - 1)>> \o split_ws(SubSeq(t, e, Len(t)))

\* re.match(r'^\d+\s+\d+\s+\d+\s+\d+$', s) on a stripped value.
is_four_integers(s) ==
    LET parts == split_ws(s)
    IN  /\ Len(parts) = 4
        /\ \A k \in 1..4 : \A j \in 1..Len(parts[k]) :
               parts[k][j] >= 48 /\ parts[k][j] <= 57

\* Line 213.
tag_fields == {STR_Keywords, STR_Subject, STR_TagsList, STR_HierarchicalSubject}

\* The elif chain of lines 246-302, in its order: the text looked for in
\* the line and the key of the face record that is set.
region_fields ==
    << [text |-> STR_RegionRectangle, key |-> "rectangle"],
       [text |-> STR_RegionAreaX, key |-> "area_x"],
       [text |-> STR_RegionAreaY, key |-> "area_y"],
       [text |-> STR_RegionAreaW, key |-> "area_w"],
       [text |-> STR_RegionAreaH, key |-> "area_h"],
       [text |-> STR_RegionAppliedToDimensionsW, key |-> "applied_w"],
       [text |-> STR_RegionAppliedToDimensionsH, key |-> "applied_h"],
       [text |-> STR_RegionAppliedToDimensionsUnit, key |-> "applied_unit"] >>

region_keys == {region_fields[k].key : k \in 1..Len(region_fields)}

\* {'name': face_name}; a key that is not set holds <<>>.
new_face(face_name) == [name |-> face_name, set |-> [k \in region_keys |-> <<>>]]

\* Lines 161-170, the modelled part; face_regions stands for the values
\* of face_regions_by_name, in the order of insertion.
empty_metadata ==
    [existing_tags |-> <<>>, hierarchical_subjects |-> <<>>, faces |-> <<>>,
     face_regions |-> <<>>]

append_new(list, x) == IF x \in Range(list) THEN list ELSE Append(list, x)

\* Lines 213-233.  skip is the `continue` of line 220.
extract_tags(m, line) ==
    LET tag_content == colon_value(line)
    IN  IF ~(\E f \in tag_fields : contains(line, f))
               \/ tag_content = <<>> \/ tag_content = STR_none
        THEN [m |-> m, skip |-> FALSE]
        ELSE IF is_four_integers(tag_content)
        THEN [m |-> m, skip |-> TRUE]
        ELSE IF 124 \in Range(tag_content)
        THEN [m |-> [m EXCEPT !.hierarchical_subjects = append_new(@, tag_content)],
              skip |-> FALSE]
        ELSE IF 47 \in Range(tag_content) /\ ~startswith(tag_content, STR_http)
        THEN [m |-> [m EXCEPT !.hierarchical_subjects =
                                  append_new(@, replace_slash(tag_content))],
              skip |-> FALSE]
        ELSE [m |-> [m EXCEPT !.existing_tags = append_new(@, tag_content)],
              skip |-> FALSE]

\* Lines 250-252 and the like: the loop over the dict breaks after its
\* first key, the face inserted first.
set_on_first_face(regions, key, value) ==
    IF regions = <<>> THEN regions
    ELSE [regions EXCEPT ![1].set[key] = value]

\* Lines 236-302.
extract_faces(m, line) ==
    IF contains(line, STR_RegionName) \/ contains(line, STR_RegionPersonDisplayName)
    THEN LET face_name == field_value(line, {STR_RegionName,
                                             STR_RegionPersonDisplayName})
         IN  IF face_name = <<>>
                    \/ \E k \in 1..Len(m.face_regions) :
                           m.face_regions[k].name = face_name
             THEN m
             ELSE [m EXCEPT !.face_regions = Append(@, new_face(face_name)),
                            !.faces = append_new(@, face_name)]
    ELSE LET F == {k \in 1..Len(region_fields) : contains(line, region_fields[k].text)}
         IN  IF F = {} THEN m
             ELSE LET f == region_fields[CHOOSE x \in F : \A y \in F : x <= y]
                      value == field_value(line, {f.text})
                  IN  IF value = <<>> THEN m
                      ELSE [m EXCEPT !.face_regions =
                                         set_on_first_face(@, f.key, value)]

\* The body of the loop of line 189 for one line.
parse_line(m, raw) ==
    LET line == strip(raw)
    IN  IF line = <<>> THEN m
        ELSE LET t == extract_tags(m, line)
             IN  IF t.skip THEN t.m ELSE extract_faces(t.m, line)

RECURSIVE parse_lines(_, _)
parse_lines(m, lines) ==
    IF lines = <<>> THEN m
    ELSE parse_lines(parse_line(m, Head(lines)), Tail(lines))

(***************************************************************************)
(* XmpSidecarGenerator.read_existing_metadata, as generate_sidecar sees    *)
(* it: the temporary entries it leaves, the operations it performs and the *)
(* record it returns, parsed from the lines the tool printed.  No          *)
(* exception leaves it (lines 306-316: each is caught and a warning is     *)
(* printed, "read_warning", and the empty record is returned), and         *)
(* generate_sidecar only prints from the record.                           *)
(***************************************************************************)
read_existing_metadata_effects(unit, name, env, stdout) ==
    LET c == _create_temp_copy_for_exiftool(unit, "read", name, env.copy1_ok)
        cl == IF c.was_copied
              THEN _cleanup_temp_file(unit, "read", c.path, env.cleanup_ok)
              ELSE [left |-> c.made, ops |-> <<>>]
    IN  [metadata |-> IF env.read_tool = "ok"
                      THEN parse_lines(empty_metadata, stdout)
                      ELSE empty_metadata,
         temps |-> cl.left,
         ops |-> <<"read_tool">> \o cl.ops
                 \o (IF env.read_tool = "ok" THEN <<>> ELSE <<"read_warning">>)]

(***************************************************************************)
(* XmpSidecarGenerator.generate_sidecar, lines 323-362: the checks, the    *)
(* filter and the deletion of an existing sidecar.                         *)
(***************************************************************************)
\* A deletion that reports success when every attempt has failed: what C13
\* rules out.
RECURSIVE delete_existing_gives_up_silently(_, _)
delete_existing_gives_up_silently(attempt, unlink_fails) ==
    IF attempt > DeleteRetries THEN [deleted |-> TRUE, ops |-> <<>>]
    ELSE IF attempt > unlink_fails
         THEN [deleted |-> TRUE, ops |-> <<"unlink_ok">>]
         ELSE LET r == delete_existing_gives_up_silently(attempt + 1, unlink_fails)
              IN  [deleted |-> r.deleted, ops |-> <<"unlink_fail">> \o r.ops]

\* for i in range(3): try unlink ... -- attempt is 1-based.
RECURSIVE delete_existing(_, _)
delete_existing(attempt, unlink_fails) ==
    IF attempt > DeleteRetries THEN [deleted |-> FALSE, ops |-> <<>>]
    ELSE IF attempt > unlink_fails
         THEN [deleted |-> TRUE, ops |-> <<"unlink_ok">>]
         ELSE LET r == delete_existing(attempt + 1, unlink_fails)
              IN  [deleted |-> r.deleted, ops |-> <<"unlink_fail">> \o r.ops]

\* generate_sidecar_prepare without the check of lines 331-333 (the tags
\* left by the filter are not looked at): what C8 rules out.
generate_sidecar_prepare_unchecked(path, tags, format_type, overwrite, blacklist, disk, unlink_fails) ==
    LET filtered == filter_tags(tags, blacklist)
        xmp_file == sidecar_path(path)
    IN  IF tags = <<>>
        THEN [early |-> TRUE, tags |-> <<>>, disk |-> disk, ops |-> <<>>]
        ELSE IF lower(format_type) = STR_xmp /\ overwrite
                    /\ disk[xmp_file].kind # "absent"
        THEN LET d == delete_existing(1, unlink_fails)
             IN  IF d.deleted
                 THEN [early |-> FALSE, tags |-> filtered,
                       disk |-> [disk EXCEPT ![xmp_file] = Absent],
                       ops |-> d.ops]
                 ELSE [early |-> TRUE, tags |-> filtered, disk |-> disk,
                       ops |-> d.ops]
        ELSE [early |-> FALSE, tags |-> filtered, disk |-> disk, ops |-> <<>>]

\* early: the function has returned (False); otherwise it goes on with the
\* filtered tags.
generate_sidecar_prepare(path, tags, format_type, overwrite, blacklist, disk, unlink_fails) ==
    LET filtered == filter_tags(tags, blacklist)
        xmp_file == sidecar_path(path)
    IN  IF tags = <<>>
        THEN [early |-> TRUE, tags |-> <<>>, disk |-> disk, ops |-> <<>>]
        ELSE IF filtered = <<>>
        THEN [early |-> TRUE, tags |-> <<>>, disk |-> disk, ops |-> <<>>]
        ELSE IF lower(format_type) = STR_xmp /\ overwrite
                    /\ disk[xmp_file].kind # "absent"
        THEN LET d == delete_existing(1, unlink_fails)
             IN  IF d.deleted
                 THEN [early |-> FALSE, tags |-> filtered,
                       disk |-> [disk EXCEPT ![xmp_file] = Absent],
                       ops |-> d.ops]
                 ELSE [early |-> TRUE, tags |-> filtered, disk |-> disk,
                       ops |-> d.ops]
        ELSE [early |-> FALSE, tags |-> filtered, disk |-> disk, ops |-> <<>>]

(***************************************************************************)
(* The external tool in write mode (subprocess.run(exiftool_cmd), line     *)
(* 496) writing to `target`: what is at the target afterwards.  exiftool   *)
(* -o does not overwrite: with a file already at the target it exits       *)
(* non-zero and leaves that file as it is.                                 *)
(***************************************************************************)
tool_output(unit, write_tool, before) ==
    IF before.kind # "absent" THEN before
    ELSE CASE write_tool = "ok" -> Written("new", unit)
           [] write_tool = "fail_partial" -> Written("partial", unit)
           [] OTHER -> Absent

\* How subprocess.run ends: "ok", "called_process_error", "file_not_found"
\* or "os_error".
tool_exit(write_tool, before) ==
    CASE write_tool = "missing" -> "file_not_found"
      [] write_tool = "raise" -> "os_error"
      [] write_tool = "ok" /\ before.kind = "absent" -> "ok"
      [] OTHER -> "called_process_error"

(***************************************************************************)
(* The finally block of lines 497-514, after an invocation that wrote to   *)
(* the temporary output: move it to the final path, replacing what is      *)
(* there.  temp_out is what the tool left at sidecar_output_path.          *)
(* Returns the destination afterwards and whether the temporary output is  *)
(* still in its directory.                                                 *)
(***************************************************************************)
move_temp_sidecar(temp_out, dest, move) ==
    IF temp_out.kind = "absent"
    THEN [dest |-> dest, left |-> FALSE, ops |-> <<>>]
    ELSE IF dest.kind # "absent" /\ move = "unlink_fail"
    THEN [dest |-> dest, left |-> TRUE, ops |-> <<"replace_unlink_fail">>]
    ELSE LET unlinked == IF dest.kind # "absent"
                         THEN <<"replace_unlink">> ELSE <<>>
         IN  IF move = "move_fail"
             THEN [dest |-> Absent, left |-> TRUE,
                   ops |-> unlinked \o <<"move_fail">>]
             ELSE [dest |-> temp_out, left |-> FALSE,
                   ops |-> unlinked \o <<"move_ok">>]

(***************************************************************************)
(* The tag directives of the write invocation (lines 484-492): for each of *)
(* the four locations in turn, one argument per tag, the location's prefix *)
(* followed by the tag.  The arguments before them (lines 395-482) are     *)
(* the fixed copy directives, of the form -X<Y; after them come -o and the *)
(* two file names (line 495).                                              *)
(***************************************************************************)
\* "-XMP-lr:HierarchicalSubject+=Auto Tags|"
STR_lr_append ==
    <<45,88,77,80,45,108,114,58,72,105,101,114,97,114,99,104,105,99,97,108,83,117,98,106,101,99,116,43,61,65,117,116,111,32,84,97,103,115,124>>

\* "-XMP-digiKam:TagsList+=Auto Tags/"
STR_digiKam_append ==
    <<45,88,77,80,45,100,105,103,105,75,97,109,58,84,97,103,115,76,105,115,116,43,61,65,117,116,111,32,84,97,103,115,47>>

\* "-XMP:Subject+="
STR_subject_append ==
    <<45,88,77,80,58,83,117,98,106,101,99,116,43,61>>

\* "-IPTC:Keywords+="
STR_keywords_append ==
    <<45,73,80,84,67,58,75,101,121,119,111,114,100,115,43,61>>

tag_locations ==
    <<STR_lr_append, STR_digiKam_append, STR_subject_append, STR_keywords_append>>

\* The directives without those of IPTC:Keywords: what C26 rules out.
tag_directives_without_keywords(tags) ==
    [k \in 1..(3 * Len(tags)) |->
        tag_locations[((k - 1) \div Len(tags)) + 1] \o tags[((k - 1) % Len(tags)) + 1]]

tag_directives(tags) ==
    [k \in 1..(Len(tag_locations) * Len(tags)) |->
        tag_locations[((k - 1) \div Len(tags)) + 1] \o tags[((k - 1) % Len(tags)) + 1]]

\* generate_sidecar_write reporting a failed move as a failed write: what
\* C23 rules out.
generate_sidecar_write_failing_on_move(unit, path, tags, format_type, disk, env, stdout) ==
    LET name == path.name
        sidecar_file == sidecar_path(path)
        rd == read_existing_metadata_effects(unit, name, env, stdout)
    IN  IF lower(format_type) # STR_xmp
        THEN [ret |-> "false", exit |-> "none", cmd |-> <<>>, disk |-> disk,
              temps |-> rd.temps, ops |-> rd.ops, metadata |-> rd.metadata]
        ELSE
        LET c == _create_temp_copy_for_exiftool(unit, "write", name, env.copy2_ok)
            unicode_in_output == _has_unicode_surrogates(sidecar_file.name)
            use_temp == unicode_in_output \/ c.was_copied
            before == IF use_temp THEN Absent ELSE disk[sidecar_file]
            out == tool_output(unit, env.write_tool, before)
            exit == tool_exit(env.write_tool, before)
            mv == IF use_temp
                  THEN move_temp_sidecar(out, disk[sidecar_file], env.move)
                  ELSE [dest |-> out, left |-> FALSE, ops |-> <<>>]
            cl == IF c.was_copied
                  THEN _cleanup_temp_file(unit, "write", c.path, env.cleanup_ok)
                  ELSE [left |-> c.made, ops |-> <<>>]
            \* temp_sidecar_dir.rmdir() fails, silently, on a directory that
            \* still holds the temporary output.
            sidecar_left == IF use_temp /\ mv.left
                            THEN {Temp(unit, "write", "sidecar_dir"),
                                  Temp(unit, "write", "sidecar")}
                            ELSE {}
        IN  [ret |-> CASE exit = "ok" /\ ~mv.left -> "true"
                       [] exit = "os_error" -> "raise"
                       [] OTHER -> "false",
             exit |-> exit,
             cmd |-> tag_directives(tags),
             metadata |-> rd.metadata,
             disk |-> [disk EXCEPT ![sidecar_file] = mv.dest],
             temps |-> rd.temps \cup cl.left \cup sidecar_left,
             ops |-> rd.ops
                     \o <<IF use_temp THEN "write_tool_temp" ELSE "write_tool_direct">>
                     \o mv.ops \o cl.ops]

\* generate_sidecar_write giving up when the read stage failed: what C21
\* rules out.
generate_sidecar_write_needs_metadata(unit, path, tags, format_type, disk, env, stdout) ==
    LET name == path.name
        sidecar_file == sidecar_path(path)
        rd == read_existing_metadata_effects(unit, name, env, stdout)
    IN  IF "read_warning" \in Range(rd.ops)
        THEN [ret |-> "false", exit |-> "none", cmd |-> <<>>, disk |-> disk,
              temps |-> rd.temps, ops |-> rd.ops, metadata |-> rd.metadata]
        ELSE IF lower(format_type) # STR_xmp
        THEN [ret |-> "false", exit |-> "none", cmd |-> <<>>, disk |-> disk,
              temps |-> rd.temps, ops |-> rd.ops, metadata |-> rd.metadata]
        ELSE
        LET c == _create_temp_copy_for_exiftool(unit, "write", name, env.copy2_ok)
            unicode_in_output == _has_unicode_surrogates(sidecar_file.name)
            use_temp == unicode_in_output \/ c.was_copied
            before == IF use_temp THEN Absent ELSE disk[sidecar_file]
            out == tool_output(unit, env.write_tool, before)
            exit == tool_exit(env.write_tool, before)
            mv == IF use_temp
                  THEN move_temp_sidecar(out, disk[sidecar_file], env.move)
                  ELSE [dest |-> out, left |-> FALSE, ops |-> <<>>]
            cl == IF c.was_copied
                  THEN _cleanup_temp_file(unit, "write", c.path, env.cleanup_ok)
                  ELSE [left |-> c.made, ops |-> <<>>]
            \* temp_sidecar_dir.rmdir() fails, silently, on a directory that
            \* still holds the temporary output.
            sidecar_left == IF use_temp /\ mv.left
                            THEN {Temp(unit, "write", "sidecar_dir"),
                                  Temp(unit, "write", "sidecar")}
                            ELSE {}
        IN  [ret |-> CASE exit = "ok" -> "true"
                       [] exit = "os_error" -> "raise"
                       [] OTHER -> "false",
             exit |-> exit,
             cmd |-> tag_directives(tags),
             metadata |-> rd.metadata,
             disk |-> [disk EXCEPT ![sidecar_file] = mv.dest],
             temps |-> rd.temps \cup cl.left \cup sidecar_left,
             ops |-> rd.ops
                     \o <<IF use_temp THEN "write_tool_temp" ELSE "write_tool_direct">>
                     \o mv.ops \o cl.ops]

\* generate_sidecar_write without the test of the format (line 378): what
\* C15 rules out.
generate_sidecar_write_any_format(unit, path, tags, format_type, disk, env, stdout) ==
    LET name == path.name
        sidecar_file == sidecar_path(path)
        rd == read_existing_metadata_effects(unit, name, env, stdout)
    IN
        LET c == _create_temp_copy_for_exiftool(unit, "write", name, env.copy2_ok)
            unicode_in_output == _has_unicode_surrogates(sidecar_file.name)
            use_temp == unicode_in_output \/ c.was_copied
            before == IF use_temp THEN Absent ELSE disk[sidecar_file]
            out == tool_output(unit, env.write_tool, before)
            exit == tool_exit(env.write_tool, before)
            mv == IF use_temp
                  THEN move_temp_sidecar(out, disk[sidecar_file], env.move)
                  ELSE [dest |-> out, left |-> FALSE, ops |-> <<>>]
            cl == IF c.was_copied
                  THEN _cleanup_temp_file(unit, "write", c.path, env.cleanup_ok)
                  ELSE [left |-> c.made, ops |-> <<>>]
            \* temp_sidecar_dir.rmdir() fails, silently, on a directory that
            \* still holds the temporary output.
            sidecar_left == IF use_temp /\ mv.left
                            THEN {Temp(unit, "write", "sidecar_dir"),
                                  Temp(unit, "write", "sidecar")}
                            ELSE {}
        IN  [ret |-> CASE exit = "ok" -> "true"
                       [] exit = "os_error" -> "raise"
                       [] OTHER -> "false",
             exit |-> exit,
             cmd |-> tag_directives(tags),
             metadata |-> rd.metadata,
             disk |-> [disk EXCEPT ![sidecar_file] = mv.dest],
             temps |-> rd.temps \cup cl.left \cup sidecar_left,
             ops |-> rd.ops
                     \o <<IF use_temp THEN "write_tool_temp" ELSE "write_tool_direct">>
                     \o mv.ops \o cl.ops]

(***************************************************************************)
(* XmpSidecarGenerator.generate_sidecar, lines 364-535: the read stage,    *)
(* the write invocation, the final move and the cleanup.                   *)
(* ret is "true", "false" or "raise" (an exception leaves the function).   *)
(***************************************************************************)
generate_sidecar_write(unit, path, tags, format_type, disk, env, stdout) ==
    LET name == path.name
        sidecar_file == sidecar_path(path)
        rd == read_existing_metadata_effects(unit, name, env, stdout)
    IN  IF lower(format_type) # STR_xmp
        THEN [ret |-> "false", exit |-> "none", cmd |-> <<>>, disk |-> disk,
              temps |-> rd.temps, ops |-> rd.ops, metadata |-> rd.metadata]
        ELSE
        LET c == _create_temp_copy_for_exiftool(unit, "write", name, env.copy2_ok)
            unicode_in_output == _has_unicode_surrogates(sidecar_file.name)
            use_temp == unicode_in_output \/ c.was_copied
            before == IF use_temp THEN Absent ELSE disk[sidecar_file]
            out == tool_output(unit, env.write_tool, before)
            exit == tool_exit(env.write_tool, before)
            mv == IF use_temp
                  THEN move_temp_sidecar(out, disk[sidecar_file], env.move)
                  ELSE [dest |-> out, left |-> FALSE, ops |-> <<>>]
            cl == IF c.was_copied
                  THEN _cleanup_temp_file(unit, "write", c.path, env.cleanup_ok)
                  ELSE [left |-> c.made, ops |-> <<>>]
            \* temp_sidecar_dir.rmdir() fails, silently, on a directory that
            \* still holds the temporary output.
            sidecar_left == IF use_temp /\ mv.left
                            THEN {Temp(unit, "write", "sidecar_dir"),
                                  Temp(unit, "write", "sidecar")}
                            ELSE {}
        IN  [ret |-> CASE exit = "ok" -> "true"
                       [] exit = "os_error" -> "raise"
                       [] OTHER -> "false",
             exit |-> exit,
             cmd |-> tag_directives(tags),
             metadata |-> rd.metadata,
             disk |-> [disk EXCEPT ![sidecar_file] = mv.dest],
             temps |-> rd.temps \cup cl.left \cup sidecar_left,
             ops |-> rd.ops
                     \o <<IF use_temp THEN "write_tool_temp" ELSE "write_tool_direct">>
                     \o mv.ops \o cl.ops]

(***************************************************************************)
(* SidecarGenerationThread                                                 *)
(***************************************************************************)
VARIABLES
    \* the thread's fields (__init__, lines 21-26)
    files, format_type, overwrite, blacklist_file, custom_blacklist_tags,
    cancelled,
    \* the machine and the disk
    max_workers, faults, timing, hash_ordered, blacklist_on_disk, disk, temps,
    \* the lines exiftool prints when it reads an image of the batch
    exif_stdout,
    \* of the most recent calls of generate_sidecar that got that far (unit
    \* 0: none yet): the record read_existing_metadata returned and the tag
    \* directives of the command of the write invocation
    existing_metadata, exiftool_cmd,
    \* the sidecars on disk when the run started (never changed)
    disk_before,
    \* run(): its position and its locals
    pc, blacklist, submitted, completed, processed_count, error_count,
    successful_images, log_batch, cancel_index,
    \* the executor: the work queue and the futures
    work_queue, futures,
    \* the units in the order their futures were set to FINISHED, each with
    \* whether as_completed's waiter was installed on its future by then
    finish_order,
    \* as_completed: whether it has started (its waiter is installed); the
    \* futures it has still to yield, in the order it yields them (those
    \* finished when it started, then the waiter's finished_futures, which
    \* grows as futures complete); how many it has yielded
    ac_installed, ac_ready, yielded,
    \* the signals emitted so far, in order
    events,
    \* XmpSidecarGeneratorWidget: its fields, the checkbox and the button,
    \* and how many threads it has started
    is_generating, generation_thread, selected_image_indices,
    only_no_sidecars_checked, button_enabled, button_text, threads_started

thread_vars == <<files, format_type, overwrite, blacklist_file, custom_blacklist_tags,
          cancelled, max_workers, faults, timing, hash_ordered, blacklist_on_disk,
          disk, temps, disk_before, pc, blacklist, submitted, completed, processed_count,
          error_count, successful_images, log_batch, cancel_index, work_queue,
          futures, ac_installed, ac_ready, yielded, events, finish_order,
          exif_stdout, existing_metadata, exiftool_cmd>>

widget_vars == <<is_generating, generation_thread, selected_image_indices,
                 only_no_sidecars_checked, button_enabled, button_text,
                 threads_started>>

vars == <<thread_vars, widget_vars>>

config_vars == <<files, format_type, overwrite, blacklist_file,
                 custom_blacklist_tags, max_workers, faults, timing, hash_ordered,
                 blacklist_on_disk, disk_before, exif_stdout>>

drain_vars == <<completed, processed_count, error_count, successful_images,
                log_batch, events>>

Units == 1..Len(files)

\* min(8, os.cpu_count() or 1); cpu_count 0 stands for None.
pool_size(cpu_count) == Min(MaxPoolWorkers, IF cpu_count = 0 THEN 1 ELSE cpu_count)

\* A future and the unit of work behind it.  st is the future's state
\* ("NONE" before submit); early, tags and ops belong to the call of
\* generate_sidecar; ret is what the call returned or "raise".
NewFuture == [st |-> "NONE", early |-> FALSE, tags |-> <<>>, ret |-> "none",
              exit |-> "none", ops |-> <<>>]

Running == {i \in Units : futures[i].st = "RUNNING"}

\* process_single_image's result (image, success, error), lines 42-47.
success_of(f) == f.ret = "true"
error_of(f) == f.ret = "raise"

(***************************************************************************)
(* The signals.                                                            *)
(***************************************************************************)
Event(type, lines, images, n, processed, errors, flag) ==
    [type |-> type, lines |-> lines, images |-> images, completed |-> n,
     processed |-> processed, errors |-> errors, cancelled |-> flag]

LogUpdated(lines) == Event("log_updated", lines, <<>>, 0, 0, 0, FALSE)
ProgressUpdated(n) == Event("progress_updated", <<>>, <<>>, n, 0, 0, FALSE)
SidecarsGenerated(images) == Event("sidecars_generated", <<>>, images, 0, 0, 0, FALSE)
GenerationFinished(processed, errors, flag) ==
    Event("generation_finished", <<>>, <<>>, 0, processed, errors, flag)

\* A log line that reports an exception like any other failure, without
\* its text: what C14 rules out.
log_line_without_detail(i, success, error) ==
    [img |-> i, kind |-> IF success THEN "created" ELSE "failed"]

\* The line appended to log_batch for image i (lines 64-73).
log_line(i, success, error) ==
    [img |-> i,
     kind |-> IF success THEN "created" ELSE IF error THEN "error" ELSE "failed"]

\* A flush at the multiples of BATCH_SIZE only: what C6 rules out.
flush_due_multiples_only(n, total) == n % BATCH_SIZE = 0

\* Line 76.
flush_due(n, total) == n % BATCH_SIZE = 0 \/ n = total

\* The terminal signals with generation_finished first: what C5 rules out.
terminal_events_finished_first(successful, batch, processed, errors, flag) ==
    <<GenerationFinished(processed, errors, flag)>>
    \o (IF successful # <<>> THEN <<SidecarsGenerated(successful)>> ELSE <<>>)
    \o (IF batch # <<>> THEN <<LogUpdated(batch)>> ELSE <<>>)

\* The terminal signals with sidecars_generated emitted whatever the list:
\* what the amended C7 rules out.
terminal_events_always_sidecars(successful, batch, processed, errors, flag) ==
    <<SidecarsGenerated(successful)>>
    \o (IF batch # <<>> THEN <<LogUpdated(batch)>> ELSE <<>>)
    \o <<GenerationFinished(processed, errors, flag)>>

\* Lines 81-88: what run() emits after the pool is shut down.
terminal_events(successful, batch, processed, errors, flag) ==
    (IF successful # <<>> THEN <<SidecarsGenerated(successful)>> ELSE <<>>)
    \o (IF batch # <<>> THEN <<LogUpdated(batch)>> ELSE <<>>)
    \o <<GenerationFinished(processed, errors, flag)>>

(***************************************************************************)
(* Orders in which as_completed yields the futures that had finished       *)
(* before it started: the iteration order of a Python set.                 *)
(***************************************************************************)
RECURSIVE SortedSeq(_)
SortedSeq(S) ==
    IF S = {} THEN <<>>
    ELSE LET m == CHOOSE x \in S : \A y \in S : x <= y
         IN  <<m>> \o SortedSeq(S \ {m})

RECURSIVE Perms(_)
Perms(S) ==
    IF S = {} THEN {<<>>}
    ELSE UNION { { <<x>> \o p : p \in Perms(S \ {x}) } : x \in S }

set_orders(S, ordered) == IF ordered THEN {SortedSeq(S)} ELSE Perms(S)

\* A cancel() that leaves every future as it is: what the amended C4 rules
\* out.
future_cancel_without_effect(f) == f

\* Future.cancel(): a pending future becomes cancelled, any other is left.
future_cancel(f) == IF f.st = "PENDING" THEN [f EXCEPT !.st = "CANCELLED"] ELSE f

\* The work items a worker will run: those whose future is not cancelled.
RECURSIVE live_items(_, _)
live_items(queue, fs) ==
    IF queue = <<>> THEN <<>>
    ELSE (IF fs[Head(queue)].st = "CANCELLED" THEN <<>> ELSE <<Head(queue)>>)
         \o live_items(Tail(queue), fs)

\* The first future at or after position i that cancel() would change
\* (Len + 1 when there is none).
RECURSIVE next_pending(_, _)
next_pending(fs, i) ==
    IF i > Len(fs) THEN i
    ELSE IF fs[i].st = "PENDING" THEN i ELSE next_pending(fs, i + 1)

(***************************************************************************)
(* run(), lines 35-38: the generator is built, and with it the blacklist.  *)
(***************************************************************************)
CreateGenerator ==
    /\ pc = "start"
    /\ blacklist' = _load_blacklist(blacklist_file, custom_blacklist_tags,
                                    blacklist_on_disk)
    /\ pc' = "submit"
    /\ UNCHANGED <<config_vars, widget_vars,
                   cancelled, disk, temps, finish_order,
                   existing_metadata, exiftool_cmd, submitted, drain_vars,
                   cancel_index, work_queue, futures, ac_installed, ac_ready,
                   yielded>>

(***************************************************************************)
(* Line 50: executor.submit for the next image.                            *)
(***************************************************************************)
Submit ==
    /\ pc = "submit"
    /\ submitted < Len(files)
    /\ submitted' = submitted + 1
    /\ futures' = [futures EXCEPT ![submitted + 1].st = "PENDING"]
    /\ work_queue' = Append(work_queue, submitted + 1)
    /\ UNCHANGED <<config_vars, widget_vars,
                   cancelled, disk, temps, finish_order,
                   existing_metadata, exiftool_cmd, pc, blacklist, drain_vars,
                   cancel_index, ac_installed, ac_ready, yielded>>

\* A worker that starts a unit whatever the number of units running: what
\* C24 rules out.
WorkerStart_beyond_the_pool ==
    /\ work_queue # <<>>
    /\ worker_may_step(timing, pc)
    /\ UNCHANGED <<config_vars, widget_vars,
                   cancelled, temps, finish_order,
                   existing_metadata, exiftool_cmd, pc, blacklist, submitted,
                   drain_vars, cancel_index, ac_installed, ac_ready, yielded>>
    /\ LET i == Head(work_queue)
       IN  /\ work_queue' = Tail(work_queue)
           /\ \E unlink_fails \in UnlinkFails(faults) :
                 \E r \in {generate_sidecar_prepare(
                              files[i].path, files[i].tags, format_type,
                              overwrite, blacklist, disk, unlink_fails)} :
                     /\ futures' = [futures EXCEPT ![i] =
                                      [st |-> "RUNNING", early |-> r.early,
                                       tags |-> r.tags, ret |-> "none",
                                       exit |-> "none", ops |-> r.ops]]
                     /\ disk' = r.disk

(***************************************************************************)
(* A pool worker takes the next work item: the future is running and      *)
(* process_single_image begins, generate_sidecar up to the deletion of the *)
(* existing sidecar.  (The work item of a cancelled future is dropped by   *)
(* the worker that takes it, without effect; the model takes it out of the *)
(* queue when the future is cancelled.)                                    *)
(***************************************************************************)
WorkerStart ==
    /\ work_queue # <<>>
    /\ worker_may_step(timing, pc)
    /\ Cardinality(Running) < max_workers
    /\ UNCHANGED <<config_vars, widget_vars,
                   cancelled, temps, finish_order,
                   existing_metadata, exiftool_cmd, pc, blacklist, submitted,
                   drain_vars, cancel_index, ac_installed, ac_ready, yielded>>
    /\ LET i == Head(work_queue)
       IN  /\ work_queue' = Tail(work_queue)
           /\ \E unlink_fails \in UnlinkFails(faults) :
                 \E r \in {generate_sidecar_prepare(
                              files[i].path, files[i].tags, format_type,
                              overwrite, blacklist, disk, unlink_fails)} :
                     /\ futures' = [futures EXCEPT ![i] =
                                      [st |-> "RUNNING", early |-> r.early,
                                       tags |-> r.tags, ret |-> "none",
                                       exit |-> "none", ops |-> r.ops]]
                     /\ disk' = r.disk

(***************************************************************************)
(* The worker finishes unit i: the rest of generate_sidecar, the result    *)
(* set on the future, the waiter of as_completed notified.                 *)
(***************************************************************************)
WorkerFinish(i) ==
    /\ i \in Units
    /\ futures[i].st = "RUNNING"
    /\ worker_may_finish(timing, pc)
    /\ ac_ready' = IF ac_installed THEN Append(ac_ready, i) ELSE ac_ready
    /\ finish_order' = Append(finish_order, [unit |-> i, waited |-> ac_installed])
    /\ UNCHANGED <<config_vars, widget_vars,
                   cancelled, pc, blacklist, submitted, drain_vars,
                   cancel_index, work_queue, ac_installed, yielded>>
    /\ \E env \in Envs(faults, files[i].path.name) :
         \E r \in {IF futures[i].early
                    THEN [ret |-> "false", exit |-> "none", cmd |-> <<>>,
                          disk |-> disk, temps |-> {}, ops |-> <<>>,
                          metadata |-> empty_metadata]
                    ELSE generate_sidecar_write(i, files[i].path,
                                                futures[i].tags, format_type,
                                                disk, env, exif_stdout)} :
             /\ futures' = [futures EXCEPT ![i].st = "FINISHED",
                                           ![i].ret = r.ret,
                                           ![i].exit = r.exit,
                                           ![i].ops = @ \o r.ops]
             /\ disk' = r.disk
             /\ temps' = temps \cup r.temps
             /\ existing_metadata' = IF futures[i].early THEN existing_metadata
                                     ELSE [unit |-> i, record |-> r.metadata]
             /\ exiftool_cmd' = IF r.cmd = <<>> THEN exiftool_cmd
                                ELSE [unit |-> i, args |-> r.cmd]

(***************************************************************************)
(* Line 53: as_completed starts once every image is submitted: it notes    *)
(* the futures already finished and installs its waiter on the others.     *)
(***************************************************************************)
AsCompletedStart ==
    /\ pc = "submit"
    /\ submitted = Len(files)
    /\ ac_ready' \in set_orders({i \in Units : futures[i].st = "FINISHED"},
                                   hash_ordered)
    /\ ac_installed' = TRUE
    /\ pc' = "drain"
    /\ UNCHANGED <<config_vars, widget_vars,
                   cancelled, disk, temps, finish_order,
                   existing_metadata, exiftool_cmd, blacklist, submitted,
                   drain_vars, cancel_index, work_queue, futures, yielded>>

(***************************************************************************)
(* Lines 53-79: as_completed yields future i.  With the flag set the loop  *)
(* goes to cancel the futures; otherwise the completion is counted,        *)
(* logged and, when due, flushed.                                          *)
(***************************************************************************)
\* The bookkeeping of a completion that counts an image whose unit raised
\* in neither counter: what C1 rules out.
Consume_uncounted_exception(i) ==
    LET n == completed + 1
        ok == success_of(futures[i])
        raised == error_of(futures[i])
        batch == Append(log_batch, log_line(i, ok, raised))
    IN  /\ completed' = n
        /\ processed_count' = IF ok THEN processed_count + 1 ELSE processed_count
        /\ error_count' = IF ok \/ raised THEN error_count ELSE error_count + 1
        /\ successful_images' = IF ok THEN Append(successful_images, i)
                                ELSE successful_images
        /\ IF flush_due(n, Len(files))
           THEN /\ events' = events \o <<LogUpdated(batch), ProgressUpdated(n)>>
                /\ log_batch' = <<>>
           ELSE /\ events' = events
                /\ log_batch' = batch

\* Consume leaving the lines in log_batch after it has emitted them: what
\* C33 rules out.
Consume_without_clearing(i) ==
    LET n == completed + 1
        ok == success_of(futures[i])
        batch == Append(log_batch, log_line(i, ok, error_of(futures[i])))
    IN  /\ completed' = n
        /\ processed_count' = IF ok THEN processed_count + 1 ELSE processed_count
        /\ error_count' = IF ok THEN error_count ELSE error_count + 1
        /\ successful_images' = IF ok THEN Append(successful_images, i)
                                ELSE successful_images
        /\ log_batch' = batch
        /\ events' = IF flush_due(n, Len(files))
                     THEN events \o <<LogUpdated(batch), ProgressUpdated(n)>>
                     ELSE events

Consume(i) ==
    LET n == completed + 1
        ok == success_of(futures[i])
        batch == Append(log_batch, log_line(i, ok, error_of(futures[i])))
    IN  /\ completed' = n
        /\ processed_count' = IF ok THEN processed_count + 1 ELSE processed_count
        /\ error_count' = IF ok THEN error_count ELSE error_count + 1
        /\ successful_images' = IF ok THEN Append(successful_images, i)
                                ELSE successful_images
        /\ IF flush_due(n, Len(files))
           THEN /\ events' = events \o <<LogUpdated(batch), ProgressUpdated(n)>>
                /\ log_batch' = <<>>
           ELSE /\ events' = events
                /\ log_batch' = batch

Yield ==
    /\ pc = "drain"
    /\ ac_ready # <<>>
    /\ LET i == Head(ac_ready)
       IN  IF cancelled
           THEN /\ pc' = "cancel"
                /\ cancel_index' = 1
                /\ UNCHANGED drain_vars
           ELSE /\ Consume(i)
                /\ UNCHANGED <<pc, cancel_index>>
    /\ ac_ready' = Tail(ac_ready)
    /\ yielded' = yielded + 1
    /\ UNCHANGED <<config_vars, widget_vars,
                   cancelled, disk, temps, finish_order,
                   existing_metadata, exiftool_cmd, blacklist, submitted,
                   work_queue, futures, ac_installed>>

\* as_completed is exhausted: every future has been yielded.
DrainEnd ==
    /\ pc = "drain"
    /\ yielded = Len(files)
    /\ pc' = "shutdown"
    /\ UNCHANGED <<config_vars, widget_vars,
                   cancelled, disk, temps, finish_order,
                   existing_metadata, exiftool_cmd, blacklist, submitted,
                   drain_vars, cancel_index, work_queue, futures, ac_installed,
                   ac_ready, yielded>>

\* The cancel loop counting every future it cancels as an error: what C22
\* rules out.
CancelNext_counts_the_skipped ==
    /\ pc = "cancel"
    /\ LET j == next_pending(futures, cancel_index)
       IN  IF j > Len(files)
           THEN /\ pc' = "shutdown"
                /\ UNCHANGED <<futures, cancel_index, work_queue, error_count>>
           ELSE /\ futures' = [futures EXCEPT ![j] = future_cancel(@)]
                /\ work_queue' = live_items(work_queue, futures')
                /\ cancel_index' = j + 1
                /\ error_count' = error_count + 1
                /\ pc' = pc
    /\ UNCHANGED <<config_vars, widget_vars,
                   cancelled, disk, temps, finish_order,
                   existing_metadata, exiftool_cmd, blacklist, submitted,
                   completed, processed_count, successful_images, log_batch,
                   events, ac_installed, ac_ready, yielded>>

(***************************************************************************)
(* Lines 55-57: f.cancel() on every future, in submission order, then      *)
(* break.  cancel() changes only a pending future, and a future that is    *)
(* not pending never becomes pending, so one step goes to the next pending *)
(* future and cancels it, or ends the loop.                                *)
(***************************************************************************)
CancelNext ==
    /\ pc = "cancel"
    /\ LET j == next_pending(futures, cancel_index)
       IN  IF j > Len(files)
           THEN /\ pc' = "shutdown"
                /\ UNCHANGED <<futures, cancel_index, work_queue>>
           ELSE /\ futures' = [futures EXCEPT ![j] = future_cancel(@)]
                /\ work_queue' = live_items(work_queue, futures')
                /\ cancel_index' = j + 1
                /\ pc' = pc
    /\ UNCHANGED <<config_vars, widget_vars,
                   cancelled, disk, temps, finish_order,
                   existing_metadata, exiftool_cmd, blacklist, submitted,
                   drain_vars, ac_installed, ac_ready, yielded>>

\* The terminal signals emitted without waiting for the workers: what C29
\* rules out.
ShutdownAndEmit_without_waiting ==
    /\ pc = "shutdown"
    /\ events' = events \o terminal_events(successful_images, log_batch,
                                           processed_count, error_count,
                                           cancelled)
    /\ log_batch' = log_batch
    /\ pc' = "done"
    /\ UNCHANGED <<config_vars, widget_vars,
                   cancelled, disk, temps, finish_order,
                   existing_metadata, exiftool_cmd, blacklist, submitted,
                   completed, processed_count, error_count, successful_images,
                   cancel_index, work_queue, futures, ac_installed, ac_ready,
                   yielded>>

(***************************************************************************)
(* The end of the with block (executor.shutdown(wait=True)) returns when   *)
(* the workers have emptied the queue and finished; then lines 81-88.      *)
(***************************************************************************)
ShutdownAndEmit ==
    /\ pc = "shutdown"
    /\ work_queue = <<>>
    /\ Running = {}
    /\ events' = events \o terminal_events(successful_images, log_batch,
                                           processed_count, error_count,
                                           cancelled)
    /\ log_batch' = log_batch
    /\ pc' = "done"
    /\ UNCHANGED <<config_vars, widget_vars,
                   cancelled, disk, temps, finish_order,
                   existing_metadata, exiftool_cmd, blacklist, submitted,
                   completed, processed_count, error_count, successful_images,
                   cancel_index, work_queue, futures, ac_installed, ac_ready,
                   yielded>>

(***************************************************************************)
(* stop(), lines 90-91, called from the GUI thread at any time.            *)
(***************************************************************************)
Stop ==
    /\ cancelled' = TRUE
    /\ UNCHANGED <<config_vars, widget_vars,
                   disk, temps, finish_order, existing_metadata,
                   exiftool_cmd, pc, blacklist, submitted, drain_vars,
                   cancel_index, work_queue, futures, ac_installed, ac_ready,
                   yielded>>

Next ==
    \/ CreateGenerator
    \/ Submit
    \/ WorkerStart
    \/ \E i \in Units : WorkerFinish(i)
    \/ AsCompletedStart
    \/ Yield
    \/ DrainEnd
    \/ CancelNext
    \/ ShutdownAndEmit
    \/ Stop

(***************************************************************************)
(* Initial states.                                                         *)
(***************************************************************************)
Image(name, tags) == [path |-> [dir |-> 1, name |-> name], tags |-> tags]

TAG_orange_cat == <<111,114,97,110,103,101,32,99,97,116>>   \* "orange cat"
TAG_blurry == <<98,108,117,114,114,121>>                    \* "blurry"
TAG_watermark == <<119,97,116,101,114,109,97,114,107>>      \* "watermark"
TAG_cat == <<99,97,116>>                                    \* "cat"
TAG_Art_padded == <<32,65,114,116,32>>                      \* " Art "
TAG_Cat_padded == <<32,67,97,116,32>>                       \* " Cat "
TAG_blank == <<32>>                                         \* " "

NAME_a_jpg == <<97,46,106,112,103>>           \* "a.jpg"
NAME_b_jpg == <<98,46,106,112,103>>           \* "b.jpg"
NAME_a_png == <<97,46,112,110,103>>           \* "a.png"
NAME_c_jpg == <<99,46,106,112,103>>           \* "c.jpg"
NAME_emoji_jpg == <<128512,46,106,112,103>>   \* U+1F600 ".jpg"

\* The images of the small batches: a batch is a prefix of this list.
Catalogue ==
    << Image(NAME_a_jpg, <<TAG_orange_cat, TAG_blurry>>),
       Image(NAME_a_png, <<TAG_cat>>),
       Image(NAME_b_jpg, <<TAG_blurry, TAG_watermark>>),
       Image(NAME_emoji_jpg, <<TAG_cat>>),
       Image(NAME_c_jpg, <<TAG_cat>>) >>

SidecarPaths(fs) == {sidecar_path(fs[i].path) : i \in 1..Len(fs)}

\* The widget when start_generation has started the thread (lines 272-310):
\* the button reads Cancel and is enabled.
WidgetAfterStart ==
    /\ is_generating = TRUE
    /\ generation_thread = "SidecarGenerationThread"
    /\ selected_image_indices = <<0>>
    /\ only_no_sidecars_checked = FALSE
    /\ button_enabled = TRUE
    /\ button_text = CANCEL_BUTTON_TEXT
    /\ threads_started = 1

\* The state of run() and of the executor before run() starts, and of the
\* widget that started the thread.
RunInit ==
    /\ disk_before = disk
    /\ cancelled = FALSE
    /\ temps = {}
    /\ pc = "start"
    /\ blacklist = {}
    /\ submitted = 0
    /\ completed = 0
    /\ processed_count = 0
    /\ error_count = 0
    /\ successful_images = <<>>
    /\ log_batch = <<>>
    /\ cancel_index = 0
    /\ work_queue = <<>>
    /\ futures = [i \in 1..Len(files) |-> NewFuture]
    /\ finish_order = <<>>
    /\ existing_metadata = [unit |-> 0, record |-> empty_metadata]
    /\ exiftool_cmd = [unit |-> 0, args |-> <<>>]
    /\ ac_installed = FALSE
    /\ ac_ready = <<>>
    /\ yielded = 0
    /\ events = <<>>
    /\ WidgetAfterStart

\* Small batches, one or more workers, any fault of the write stage (the
\* faults of the delete and read stages are in GenSpec).
Init ==
    /\ files \in {SubSeq(Catalogue, 1, Min(n, Len(Catalogue))) : n \in 0..MaxFiles}
    /\ format_type \in {STR_xmp, STR_png}
    /\ overwrite \in BOOLEAN
    /\ blacklist_file = <<>>
    /\ custom_blacklist_tags = <<>>
    /\ max_workers \in {pool_size(c) : c \in 0..MaxCpu}
    /\ faults = "write_stage"
    /\ timing = "any"
    /\ hash_ordered = FALSE
    /\ blacklist_on_disk = NoBlacklistFile
    /\ disk \in [SidecarPaths(files) -> {Absent, Old}]
    /\ exif_stdout = <<>>
    /\ RunInit

Spec == Init /\ [][Next]_vars

(***************************************************************************)
(* One image, with the inputs of generate_sidecar varied: the name (plain  *)
(* or with an emoji), the tags, the format, overwrite, the blacklist       *)
(* settings and whether a sidecar is already there.                        *)
(***************************************************************************)
GenNames == {NAME_a_jpg, NAME_emoji_jpg}

GenTagLists ==
    { <<>>,
      <<TAG_blank>>,
      <<TAG_blurry, TAG_watermark>>,
      <<TAG_Art_padded>>,
      <<TAG_orange_cat, TAG_blurry>>,
      <<TAG_Cat_padded, TAG_cat>> }

GenInit ==
    /\ files \in {<<Image(name, tags)>> : name \in GenNames, tags \in GenTagLists}
    /\ format_type \in {STR_xmp, STR_XMP, STR_png}
    /\ overwrite \in BOOLEAN
    /\ blacklist_file \in {<<>>, STR_DISABLED}
    /\ custom_blacklist_tags \in {<<>>, <<TAG_Cat_padded>>}
    /\ max_workers = pool_size(1)
    /\ faults = "any"
    /\ timing = "any"
    /\ hash_ordered = FALSE
    /\ blacklist_on_disk = NoBlacklistFile
    /\ disk \in [SidecarPaths(files) -> {Absent, Old}]
    /\ exif_stdout = <<>>
    /\ RunInit

GenSpec == GenInit /\ [][Next]_vars

(***************************************************************************)
(* A large batch of like images on a one-core machine whose exiftool       *)
(* either works or is not installed.  The behaviours are those in which   *)
(* the set of futures iterates in submission order, every image is         *)
(* submitted before the first call returns and no worker makes a step      *)
(* during the cancel loop.                                                 *)
(***************************************************************************)
BatchName(k) == <<1000 + k>> \o <<46,106,112,103>>

BatchFiles(n) == [k \in 1..n |-> Image(BatchName(k), <<TAG_cat>>)]

BatchInit ==
    /\ files \in {BatchFiles(BATCH_SIZE), BatchFiles(BigBatch)}
    /\ format_type = STR_xmp
    /\ overwrite = TRUE
    /\ blacklist_file = <<>>
    /\ custom_blacklist_tags = <<>>
    /\ max_workers = pool_size(1)
    /\ faults \in {"none", "tool_missing"}
    /\ timing = "fast_loops"
    /\ hash_ordered = TRUE
    /\ blacklist_on_disk = NoBlacklistFile
    /\ disk = [p \in SidecarPaths(files) |-> Absent]
    /\ exif_stdout = <<>>
    /\ RunInit

BatchSpec == BatchInit /\ [][Next]_vars

(***************************************************************************)
(* One image on a healthy machine, with the inputs of _load_blacklist      *)
(* varied: no blacklist file, the DISABLED sentinel or a path; the file at *)
(* that path missing, unreadable (reading raises after some lines) or      *)
(* read in full; custom tags absent, blank or given.                       *)
(***************************************************************************)
STR_blacklist_txt == <<98,108,46,116,120,116>>     \* "bl.txt"

LINE_Dog_padded == <<32,68,111,103,32,10>>         \* " Dog \n"
LINE_comment == <<35,32,99,97,116,10>>             \* "# cat\n"
LINE_empty == <<10>>                               \* "\n"
LINE_indented_hash == <<32,35,120,10>>             \* " #x\n"

TAG_dog == <<100,111,103>>                         \* "dog"
TAG_Cat == <<67,97,116>>                           \* "Cat"

BlacklistLines == <<LINE_Dog_padded, LINE_comment, LINE_empty, LINE_indented_hash>>

BlacklistFiles ==
    { NoBlacklistFile,
      [exists |-> TRUE, readable |-> FALSE, lines |-> BlacklistLines],
      [exists |-> TRUE, readable |-> TRUE, lines |-> BlacklistLines] }

LoadTagLists == {<<TAG_dog, TAG_Cat, TAG_orange_cat>>, <<TAG_Cat, TAG_cat>>}

LoadInit ==
    /\ files \in {<<Image(NAME_a_jpg, tags)>> : tags \in LoadTagLists}
    /\ format_type = STR_xmp
    /\ overwrite = TRUE
    /\ blacklist_file \in {<<>>, STR_DISABLED, STR_blacklist_txt}
    /\ custom_blacklist_tags \in {<<>>, <<TAG_blank>>, <<TAG_Cat_padded, TAG_blank>>}
    /\ max_workers = pool_size(1)
    /\ faults = "none"
    /\ timing = "any"
    /\ hash_ordered = FALSE
    /\ blacklist_on_disk \in BlacklistFiles
    /\ disk = [p \in SidecarPaths(files) |-> Absent]
    /\ exif_stdout = <<>>
    /\ RunInit

LoadSpec == LoadInit /\ [][Next]_vars

(***************************************************************************)
(* One image whose sidecar is written without fault, with the lines the    *)
(* read tool prints varied: every sequence of up to MaxLines of the lines  *)
(* below, which are of the form exiftool -s prints (NAME : value).         *)
(***************************************************************************)
\* "Subject : cat "
LINE_subject_cat ==
    <<83,117,98,106,101,99,116,32,58,32,99,97,116,32>>

\* "Keywords : a/b"
LINE_keywords_path ==
    <<75,101,121,119,111,114,100,115,32,58,32,97,47,98>>

\* "HierarchicalSubject : a|b"
LINE_hierarchical ==
    <<72,105,101,114,97,114,99,104,105,99,97,108,83,117,98,106,101,99,116,32,58,32,97,124,98>>

\* "Keywords : 1 2 3 4"
LINE_keywords_numbers ==
    <<75,101,121,119,111,114,100,115,32,58,32,49,32,50,32,51,32,52>>

\* "TagsList : http://x"
LINE_tagslist_url ==
    <<84,97,103,115,76,105,115,116,32,58,32,104,116,116,112,58,47,47,120>>

\* "Title : Subject"
LINE_title ==
    <<84,105,116,108,101,32,58,32,83,117,98,106,101,99,116>>

\* "RegionName : Al"
LINE_region_name_Al ==
    <<82,101,103,105,111,110,78,97,109,101,32,58,32,65,108>>

\* "RegionPersonDisplayName : Bo"
LINE_region_person_Bo ==
    <<82,101,103,105,111,110,80,101,114,115,111,110,68,105,115,112,108,97,121,78,97,109,101,32,58,32,66,111>>

\* "RegionRectangle : r1"
LINE_region_rectangle ==
    <<82,101,103,105,111,110,82,101,99,116,97,110,103,108,101,32,58,32,114,49>>

\* "RegionAreaX : 5"
LINE_region_area_x ==
    <<82,101,103,105,111,110,65,114,101,97,88,32,58,32,53>>

ExifLines ==
    { LINE_subject_cat,
      LINE_keywords_path,
      LINE_hierarchical,
      LINE_keywords_numbers,
      LINE_tagslist_url,
      LINE_title,
      LINE_region_name_Al,
      LINE_region_person_Bo,
      LINE_region_rectangle,
      LINE_region_area_x }

RECURSIVE SeqsUpTo(_, _)
SeqsUpTo(S, n) ==
    IF n = 0 THEN {<<>>}
    ELSE LET shorter == SeqsUpTo(S, n - 1)
         IN  shorter \cup {Append(q, x) : q \in shorter, x \in S}

ParseInit ==
    /\ files = <<Image(NAME_a_jpg, <<TAG_cat>>)>>
    /\ format_type = STR_xmp
    /\ overwrite = TRUE
    /\ blacklist_file = <<>>
    /\ custom_blacklist_tags = <<>>
    /\ max_workers = pool_size(1)
    /\ faults = "none"
    /\ timing = "any"
    /\ hash_ordered = FALSE
    /\ blacklist_on_disk = NoBlacklistFile
    /\ disk = [p \in SidecarPaths(files) |-> Absent]
    /\ exif_stdout \in SeqsUpTo(ExifLines, MaxLines)
    /\ RunInit

ParseSpec == ParseInit /\ [][Next]_vars

(***************************************************************************)
(* Fairness: the run thread and the pool workers are operating-system      *)
(* threads that keep being scheduled, and every invocation of the          *)
(* external tool returns.  Nothing forces stop() to be called.             *)
(***************************************************************************)
\* The steps of the thread that executes run().
RunThread ==
    \/ CreateGenerator
    \/ Submit
    \/ AsCompletedStart
    \/ Yield
    \/ DrainEnd
    \/ CancelNext
    \/ ShutdownAndEmit

\* The steps of the worker threads of the executor.
PoolWorkers ==
    \/ WorkerStart
    \/ \E i \in Units : WorkerFinish(i)

Fairness ==
    /\ WF_vars(RunThread)
    /\ WF_vars(PoolWorkers)

\* Small batches written as XMP, on a machine whose exiftool either works
\* or is not installed.
FairInit ==
    /\ files \in {SubSeq(Catalogue, 1, Min(n, Len(Catalogue))) : n \in 0..MaxFiles}
    /\ format_type = STR_xmp
    /\ overwrite \in BOOLEAN
    /\ blacklist_file = <<>>
    /\ custom_blacklist_tags = <<>>
    /\ max_workers \in {pool_size(c) : c \in 0..MaxCpu}
    /\ faults \in {"none", "tool_missing"}
    /\ timing = "any"
    /\ hash_ordered = FALSE
    /\ blacklist_on_disk = NoBlacklistFile
    /\ disk \in [SidecarPaths(files) -> {Absent, Old}]
    /\ exif_stdout = <<>>
    /\ RunInit

FairSpec == FairInit /\ [][Next]_vars /\ Fairness

(***************************************************************************)
(* XmpSidecarGeneratorWidget (widgets/xmp_sidecar_generator.py).  The      *)
(* handlers run on the GUI thread, one at a time, between the steps of     *)
(* the generation thread.  The image list is that of ImageList and does    *)
(* not change; the blacklist checkbox is unchecked, so that the thread     *)
(* gets blacklist_file 'DISABLED' and no custom tags (lines 246-256).      *)
(***************************************************************************)
ListedImage(name, tags, has_xmp) == [path |-> [dir |-> 1, name |-> name], tags |-> tags, has_xmp |-> has_xmp]

\* image_list_model.images: a tagged image without sidecar, a tagged image
\* with one, and an image without tags.
ImageList ==
    << ListedImage(NAME_a_jpg, <<TAG_cat>>, FALSE),
       ListedImage(NAME_b_jpg, <<TAG_cat>>, TRUE),
       ListedImage(NAME_c_jpg, <<>>, FALSE) >>

\* The selections the main window reports: rows of the image list, from 0.
Selections == { <<>>, <<0>>, <<1>>, <<0, 1>>, <<2>> }

\* Lines 161-177.
_get_files_to_process(selected, only_no_sidecars) ==
    IF ImageList = <<>> THEN <<>>
    ELSE LET rows == SelectSeq(selected, LAMBDA i : i < Len(ImageList))
             chosen == [k \in 1..Len(rows) |-> ImageList[rows[k] + 1]]
         IN  IF only_no_sidecars
             THEN SelectSeq(chosen, LAMBDA img : ~img.has_xmp)
             ELSE chosen

\* Lines 199 and 238: [img for img in files_to_process if img.tags].
files_with_tags(files_to_process) ==
    SelectSeq(files_to_process, LAMBDA img : img.tags # <<>>)

\* Lines 193-204: what update_file_count passes to setEnabled.
update_file_count_enabled(selected, only_no_sidecars) ==
    files_with_tags(_get_files_to_process(selected, only_no_sidecars)) # <<>>

\* Lines 179-188: the main window reports a selection.
set_selected_image_indices ==
    /\ \E selected \in Selections :
         /\ selected_image_indices' = selected
         /\ button_enabled' = update_file_count_enabled(selected, only_no_sidecars_checked)
    /\ UNCHANGED <<thread_vars, is_generating, generation_thread,
                   only_no_sidecars_checked, button_text, threads_started>>

\* Lines 153 and 190-204: the checkbox is toggled, and its toggled signal
\* calls update_file_count.
update_file_count ==
    /\ only_no_sidecars_checked' = ~only_no_sidecars_checked
    /\ button_enabled' = update_file_count_enabled(selected_image_indices, ~only_no_sidecars_checked)
    /\ UNCHANGED <<thread_vars, is_generating, generation_thread,
                   selected_image_indices, button_text, threads_started>>

\* Lines 282-310: SidecarGenerationThread(...) and start(); the new thread
\* is at the top of run().
start_generation(fs, format, overwrite_checked) ==
    /\ button_enabled' = TRUE
    /\ generation_thread' = "SidecarGenerationThread"
    /\ threads_started' = threads_started + 1
    /\ files' = [k \in 1..Len(fs) |-> [path |-> fs[k].path, tags |-> fs[k].tags]]
    /\ format_type' = format
    /\ overwrite' = overwrite_checked
    /\ blacklist_file' = STR_DISABLED
    /\ custom_blacklist_tags' = <<>>
    /\ cancelled' = FALSE
    /\ disk_before' = disk
    /\ pc' = "start"
    /\ blacklist' = {}
    /\ submitted' = 0
    /\ completed' = 0
    /\ processed_count' = 0
    /\ error_count' = 0
    /\ successful_images' = <<>>
    /\ log_batch' = <<>>
    /\ cancel_index' = 0
    /\ work_queue' = <<>>
    /\ futures' = [i \in 1..Len(fs) |-> NewFuture]
    /\ finish_order' = <<>>
    /\ existing_metadata' = [unit |-> 0, record |-> empty_metadata]
    /\ exiftool_cmd' = [unit |-> 0, args |-> <<>>]
    /\ ac_installed' = FALSE
    /\ ac_ready' = <<>>
    /\ yielded' = 0
    /\ events' = <<>>
    /\ UNCHANGED <<max_workers, faults, timing, hash_ordered, blacklist_on_disk,
                   disk, temps, exif_stdout>>

\* Lines 234-280.  Nothing changes when no selected image has tags (a
\* warning is shown) or when the confirmation is not answered with Yes.
generate_sidecars ==
    LET fs == files_with_tags(_get_files_to_process(selected_image_indices, only_no_sidecars_checked))
    IN  \E overwrite_checked \in BOOLEAN, answer \in {"Yes", "No"} :
            IF fs = <<>> \/ answer # "Yes"
            THEN UNCHANGED vars
            ELSE /\ threads_started < MaxRuns
                 /\ is_generating' = TRUE
                 /\ button_text' = CANCEL_BUTTON_TEXT
                 /\ start_generation(fs, STR_xmp, overwrite_checked)
                 /\ UNCHANGED <<selected_image_indices, only_no_sidecars_checked>>

\* Lines 222-232: the button is clicked (a disabled button is not).  The
\* call of generation_thread.stop() sets the thread's cancelled.
generate_or_cancel_sidecars ==
    /\ button_enabled
    /\ IF is_generating
       THEN /\ cancelled' = IF generation_thread # "None" THEN TRUE ELSE cancelled
            /\ button_text' = CANCELLING_BUTTON_TEXT
            /\ button_enabled' = FALSE
            /\ UNCHANGED <<config_vars, disk, temps, finish_order,
                           existing_metadata, exiftool_cmd, pc, blacklist,
                           submitted, drain_vars, cancel_index, work_queue,
                           futures, ac_installed, ac_ready, yielded,
                           is_generating, generation_thread,
                           selected_image_indices, only_no_sidecars_checked,
                           threads_started>>
       ELSE generate_sidecars

\* Lines 326-351, called when the thread has emitted generation_finished
\* (lines 304-308).
on_generation_finished ==
    /\ generation_thread # "None"
    /\ pc = "done"
    /\ is_generating' = FALSE
    /\ generation_thread' = "None"
    /\ button_text' = GENERATE_BUTTON_TEXT
    /\ button_enabled' = TRUE
    /\ UNCHANGED <<thread_vars, selected_image_indices,
                   only_no_sidecars_checked, threads_started>>

\* The steps of the thread the widget started, which only the widget
\* stops, and the handlers of the widget.
WidgetNext ==
    \/ CreateGenerator
    \/ Submit
    \/ WorkerStart
    \/ \E i \in Units : WorkerFinish(i)
    \/ AsCompletedStart
    \/ Yield
    \/ DrainEnd
    \/ CancelNext
    \/ ShutdownAndEmit
    \/ set_selected_image_indices
    \/ update_file_count
    \/ generate_or_cancel_sidecars
    \/ on_generation_finished

\* __init__ (lines 37-56): nothing is selected, so update_file_count
\* disables the button; no thread yet (the thread's fields hold those of
\* an empty batch whose run() has returned).  A healthy machine with two
\* cores, and the sidecar of the second image on disk.
WidgetInit ==
    /\ is_generating = FALSE
    /\ generation_thread = "None"
    /\ selected_image_indices = <<>>
    /\ only_no_sidecars_checked \in BOOLEAN
    /\ button_enabled = update_file_count_enabled(<<>>, only_no_sidecars_checked)
    /\ button_text = GENERATE_BUTTON_TEXT
    /\ threads_started = 0
    /\ files = <<>>
    /\ format_type = STR_xmp
    /\ overwrite = FALSE
    /\ blacklist_file = STR_DISABLED
    /\ custom_blacklist_tags = <<>>
    /\ max_workers = pool_size(2)
    /\ faults = "none"
    /\ timing = "any"
    /\ hash_ordered = TRUE
    /\ blacklist_on_disk = NoBlacklistFile
    /\ disk = [p \in SidecarPaths(ImageList) |-> IF \E k \in 1..Len(ImageList) : ImageList[k].has_xmp /\ sidecar_path(ImageList[k].path) = p THEN Old ELSE Absent]
    /\ exif_stdout = <<>>
    /\ disk_before = disk
    /\ cancelled = FALSE
    /\ temps = {}
    /\ pc = "done"
    /\ blacklist = {}
    /\ submitted = 0
    /\ completed = 0
    /\ processed_count = 0
    /\ error_count = 0
    /\ successful_images = <<>>
    /\ log_batch = <<>>
    /\ cancel_index = 0
    /\ work_queue = <<>>
    /\ futures = <<>>
    /\ finish_order = <<>>
    /\ existing_metadata = [unit |-> 0, record |-> empty_metadata]
    /\ exiftool_cmd = [unit |-> 0, args |-> <<>>]
    /\ ac_installed = FALSE
    /\ ac_ready = <<>>
    /\ yielded = 0
    /\ events = <<>>

WidgetSpec == WidgetInit /\ [][WidgetNext]_vars

(***************************************************************************)
(* Vocabulary of the properties.                                           *)
(***************************************************************************)
EventsOf(type) == {k \in 1..Len(events) : events[k].type = type}

\* The generation_finished signals emitted so far.
Finished == {events[k] : k \in EventsOf("generation_finished")}

\* The units whose call of process_single_image has returned.
CompletedUnits == {i \in Units : futures[i].st = "FINISHED"}

\* Every line logged so far: those emitted in log_updated signals, in
\* order, then those still in log_batch (run() emits the last batch
\* without clearing the list, so after the run they are all emitted).
RECURSIVE EmittedLines(_)
EmittedLines(k) ==
    IF k = 0 THEN <<>>
    ELSE EmittedLines(k - 1) \o events[k].lines

AllLines ==
    EmittedLines(Len(events)) \o (IF pc = "done" THEN <<>> ELSE log_batch)

\* The units the drain loop has consumed (each has logged one line).
ConsumedUnits == {AllLines[k].img : k \in 1..Len(AllLines)}

(***************************************************************************)
(* C1.  Whenever generation_finished is emitted with cancelled = false,    *)
(* processed + errors equals the number of images of the batch.            *)
(***************************************************************************)
C1_UncancelledRunCountsEveryImage ==
    \A e \in Finished :
        ~e.cancelled => e.processed + e.errors = Len(files)

\* A run of two images that ends uncancelled with one success and one
\* failure.
C1_Witness ==
    \E e \in Finished :
        ~e.cancelled /\ Len(files) = 2 /\ e.processed = 1 /\ e.errors = 1

(***************************************************************************)
(* C2.  For every run, cancelled ones included, the processed + errors     *)
(* reported by generation_finished equals the number of images whose       *)
(* worker unit ran to completion during the run.                           *)
(***************************************************************************)
C2_CountsEqualCompletedUnits ==
    \A e \in Finished :
        e.processed + e.errors = Cardinality(CompletedUnits)

(***************************************************************************)
(* C3.  Every generation_finished that reports cancelled = true has        *)
(* processed + errors strictly less than the batch size (stated for        *)
(* batches of at least one image).                                         *)
(***************************************************************************)
C3_CancelledRunIsIncomplete ==
    \A e \in Finished :
        e.cancelled /\ Len(files) > 0 => e.processed + e.errors < Len(files)

(***************************************************************************)
(* C4.  Once stop() has set the cancelled flag, no worker unit begins      *)
(* executing: no future goes from pending to running in a step taken with  *)
(* the flag already set.                                                   *)
(***************************************************************************)
NoUnitBegins == \A i \in Units : futures'[i].st = "RUNNING" => futures[i].st = "RUNNING"

C4_NoUnitBeginsAfterStop == [][cancelled => NoUnitBegins]_vars

(***************************************************************************)
(* C4, amended.  Once run() has left the loop that calls cancel() on every *)
(* future, no worker unit begins executing: nothing is pending any more    *)
(* (each future is running, finished or cancelled), a cancelled future     *)
(* stays cancelled, and no future starts running.                          *)
(***************************************************************************)
CancelLoopDone == cancel_index > 0 /\ pc \in {"shutdown", "done"}

C4_NoUnitBeginsAfterCancelLoop ==
    [][CancelLoopDone =>
          /\ \A i \in Units : futures[i].st \in {"RUNNING", "FINISHED", "CANCELLED"}
          /\ \A i \in Units : futures[i].st = "CANCELLED" => futures'[i].st = "CANCELLED"
          /\ NoUnitBegins]_vars

\* The cancel loop is over, one unit was abandoned and another one, in
\* flight or finished, was not.
C4_Witness ==
    /\ CancelLoopDone
    /\ \E i \in Units : futures[i].st = "CANCELLED"
    /\ \E i \in Units : futures[i].st \in {"RUNNING", "FINISHED"}

(***************************************************************************)
(* C5.  Every run eventually emits generation_finished, emits it exactly   *)
(* once, and emits nothing after it.                                       *)
(***************************************************************************)
FinishedIsLast ==
    /\ Cardinality(EventsOf("generation_finished")) <= 1
    /\ \A k \in EventsOf("generation_finished") : k = Len(events) /\ pc = "done"

C5_TerminalEventFiresOnceAndLast ==
    /\ <>(EventsOf("generation_finished") # {})
    /\ []FinishedIsLast
    /\ [][EventsOf("generation_finished") # {} => events' = events]_vars

\* A run of two images, stopped, that reported no success, has emitted its
\* terminal event.
C5_Witness ==
    /\ EventsOf("generation_finished") # {}
    /\ Len(files) = 2
    /\ cancelled
    /\ processed_count = 0

(***************************************************************************)
(* C6.  Without cancellation, a log_updated followed by a progress_updated *)
(* is emitted exactly at the completion counts k with k mod 50 = 0 or      *)
(* k = n, and no other log_updated: ceil(n / 50) of them in a whole run.   *)
(***************************************************************************)
\* The completion counts up to n at which a flush is due, in order.
FlushCounts(n, total) ==
    SortedSeq({k \in 1..n : k % BATCH_SIZE = 0 \/ k = total})

\* The events of the drain loop: those before the terminal ones.
LoopEvents ==
    SelectSeq(events, LAMBDA e : e.type \in {"log_updated", "progress_updated"})

C6_FlushesAtMultiplesAndAtTheEnd ==
    ~cancelled =>
        LET due == FlushCounts(completed, Len(files))
        IN  /\ Len(LoopEvents) = 2 * Len(due)
            /\ \A m \in 1..Len(due) :
                   /\ LoopEvents[2 * m - 1].type = "log_updated"
                   /\ LoopEvents[2 * m].type = "progress_updated"
                   /\ LoopEvents[2 * m].completed = due[m]
            /\ SubSeq(events, 1, Len(LoopEvents)) = LoopEvents
            /\ pc = "done" =>
                   Cardinality(EventsOf("log_updated"))
                       = (Len(files) + BATCH_SIZE - 1) \div BATCH_SIZE

\* An uncancelled run of more than 50 images has ended with two flushes.
C6_Witness ==
    /\ pc = "done"
    /\ ~cancelled
    /\ Len(files) > BATCH_SIZE
    /\ Cardinality(EventsOf("log_updated")) = 2

(***************************************************************************)
(* C7.  On drain of every run the thread emits sidecars_generated exactly  *)
(* once, carrying exactly the images counted in processedCount, also when  *)
(* that list is empty.                                                     *)
(***************************************************************************)
\* The images with a "created" line, in the order they were consumed.
CreatedImages ==
    LET created == SelectSeq(AllLines, LAMBDA l : l.kind = "created")
    IN  [k \in 1..Len(created) |-> created[k].img]

SidecarsCarryTheProcessed ==
    \A k \in EventsOf("sidecars_generated") :
        /\ events[k].images = CreatedImages
        /\ Len(events[k].images) = processed_count

C7_SidecarsGeneratedOnceAlways ==
    pc = "done" =>
        /\ Cardinality(EventsOf("sidecars_generated")) = 1
        /\ SidecarsCarryTheProcessed

(***************************************************************************)
(* C7, amended.  On drain of every run the thread emits sidecars_generated *)
(* exactly once when at least one image was counted in processedCount,     *)
(* carrying exactly those images, and does not emit it when none was.      *)
(***************************************************************************)
C7_SidecarsGeneratedOnceIfAny ==
    /\ pc # "done" => EventsOf("sidecars_generated") = {}
    /\ pc = "done" =>
        /\ Cardinality(EventsOf("sidecars_generated"))
               = IF processed_count > 0 THEN 1 ELSE 0
        /\ SidecarsCarryTheProcessed

\* A run of two images ended with one image in the success list.
C7_Witness ==
    /\ pc = "done"
    /\ Len(files) = 2
    /\ \E k \in EventsOf("sidecars_generated") : Len(events[k].images) = 1
    /\ error_count = 1

(***************************************************************************)
(* C8.  generate_sidecar called with an empty tag list, or with tags that  *)
(* are all removed by filter_tags, returns failure before any filesystem   *)
(* or tool action: no sidecar is deleted or written, the tool is not       *)
(* invoked, nothing temporary is created; the image is counted in          *)
(* errorCount.  (One image per run, so the disk is only this call's.)      *)
(***************************************************************************)
\* The blacklist the generator of this run is built with.
LoadedBlacklist ==
    _load_blacklist(blacklist_file, custom_blacklist_tags, blacklist_on_disk)

NoEligibleTags(i) ==
    \/ files[i].tags = <<>>
    \/ filter_tags(files[i].tags, LoadedBlacklist) = <<>>

C8_NoEligibleTagsFailsBeforeAnyAction ==
    \A i \in Units :
        NoEligibleTags(i) =>
            /\ futures[i].ops = <<>>
            /\ disk = disk_before
            /\ temps = {}
            /\ futures[i].st = "FINISHED" => futures[i].ret = "false"
            /\ i \in ConsumedUnits =>
                   /\ error_count = 1
                   /\ processed_count = 0
                   /\ \A k \in 1..Len(AllLines) : AllLines[k].kind = "failed"

\* An image whose tags are all filtered out, with a sidecar in place that
\* overwrite would delete, has been processed and counted.
C8_Witness ==
    /\ pc = "done"
    /\ files[1].tags # <<>>
    /\ NoEligibleTags(1)
    /\ overwrite
    /\ lower(format_type) = STR_xmp
    /\ disk_before[sidecar_path(files[1].path)] = Old
    /\ futures[1].st = "FINISHED"
    /\ error_count = 1

(***************************************************************************)
(* C9.  With overwrite false, a sidecar that exists at <dir>/<stem>.xmp    *)
(* before the call is left untouched by generate_sidecar: neither deleted  *)
(* nor replaced.                                                           *)
(***************************************************************************)
C9_ExistingSidecarUntouchedWithoutOverwrite ==
    ~overwrite =>
        \A p \in DOMAIN disk_before :
            disk_before[p] = Old => disk[p] = Old

(***************************************************************************)
(* C10.  Whenever generate_sidecar returns success, a sidecar written by   *)
(* that call's tool invocation is at <dir>/<stem>.xmp.                     *)
(***************************************************************************)
C10_SuccessMeansSidecarAtDestination ==
    \A i \in Units :
        futures[i].st = "FINISHED" /\ futures[i].ret = "true" =>
            disk[sidecar_path(files[i].path)] = Written("new", i)

(***************************************************************************)
(* C11.  Whenever generate_sidecar returns failure, no partial sidecar is  *)
(* at the true destination: the tool never writes to the destination       *)
(* directly, and the output of a failed invocation is never moved onto it. *)
(***************************************************************************)
Destination(i) == disk[sidecar_path(files[i].path)]

ReturnedFailure(i) == futures[i].st = "FINISHED" /\ futures[i].ret = "false"

C11_FailureLeavesNoPartialSidecar ==
    \A i \in Units :
        ReturnedFailure(i) => Destination(i).kind # "partial"

(***************************************************************************)
(* C12.  When generate_sidecar has returned, on any exit path, no          *)
(* temporary file and no temporary directory created during the call, by   *)
(* the read stage or the write stage, is left.                             *)
(***************************************************************************)
TempsOf(i) == {t \in temps : t.unit = i}

C12_NoTemporaryLeftBehind ==
    \A i \in Units : futures[i].st = "FINISHED" => TempsOf(i) = {}

(***************************************************************************)
(* C13.  With overwrite true and a sidecar at the destination, the delete  *)
(* is attempted at most 3 times and not again after an attempt succeeded;  *)
(* when all 3 attempts fail the call returns failure, the sidecar is       *)
(* still there and the tool is invoked neither in read nor in write mode.  *)
(* (One image per run, so the disk is only this call's.)                   *)
(***************************************************************************)
UnlinkAttempts(ops) == SelectSeq(ops, LAMBDA o : o \in {"unlink_fail", "unlink_ok"})

ToolInvocations(ops) ==
    SelectSeq(ops, LAMBDA o : o \in {"read_tool", "write_tool_direct", "write_tool_temp"})

DeleteIsDue(i) ==
    /\ futures[i].st \in {"RUNNING", "FINISHED"}
    /\ ~NoEligibleTags(i)
    /\ overwrite
    /\ lower(format_type) = STR_xmp
    /\ disk_before[sidecar_path(files[i].path)] = Old

C13_DeleteRetriedThreeTimesThenFailure ==
    \A i \in Units :
        DeleteIsDue(i) =>
            LET attempts == UnlinkAttempts(futures[i].ops)
                n == Len(attempts)
            IN  /\ n \in 1..3
                /\ SubSeq(futures[i].ops, 1, n) = attempts
                /\ \A k \in 1..(n - 1) : attempts[k] = "unlink_fail"
                /\ attempts[n] = "unlink_fail" =>
                       /\ n = 3
                       /\ ToolInvocations(futures[i].ops) = <<>>
                       /\ Destination(i) = Old
                       /\ futures[i].st = "FINISHED" => futures[i].ret = "false"
                /\ attempts[n] = "unlink_ok" /\ futures[i].st = "FINISHED" =>
                       ToolInvocations(futures[i].ops) # <<>>

\* All three attempts to delete the sidecar failed and the call is over.
C13_Witness ==
    /\ DeleteIsDue(1)
    /\ futures[1].st = "FINISHED"
    /\ futures[1].ops = <<"unlink_fail", "unlink_fail", "unlink_fail">>
    /\ futures[1].ret = "false"

(***************************************************************************)
(* C14.  No failure of one image aborts the batch: an image whose unit     *)
(* fails or raises is reported as one failed outcome (one log line, with   *)
(* the exception when it raised; counted once in errorCount), and without  *)
(* cancellation every image of the batch is processed and counted.         *)
(***************************************************************************)
OutcomeKind(i) ==
    CASE futures[i].ret = "true" -> "created"
      [] futures[i].ret = "raise" -> "error"
      [] OTHER -> "failed"

LinesOf(i) == {k \in 1..Len(AllLines) : AllLines[k].img = i}

C14_FailuresAreCountedOnceAndDoNotAbort ==
    /\ \A i \in ConsumedUnits :
           /\ futures[i].st = "FINISHED"
           /\ Cardinality(LinesOf(i)) = 1
           /\ \A k \in LinesOf(i) : AllLines[k].kind = OutcomeKind(i)
    /\ error_count = Cardinality({i \in ConsumedUnits : futures[i].ret # "true"})
    /\ processed_count = Cardinality({i \in ConsumedUnits : futures[i].ret = "true"})
    /\ \A e \in Finished :
           ~e.cancelled =>
               /\ ConsumedUnits = Units
               /\ e.errors = error_count
               /\ e.processed = processed_count

\* An uncancelled run of two images has ended: one unit raised, the other
\* one succeeded.
C14_Witness ==
    /\ \E e \in Finished : ~e.cancelled /\ e.errors = 1 /\ e.processed = 1
    /\ \E i \in Units : futures[i].ret = "raise"
    /\ \E i \in Units : futures[i].ret = "true"

(***************************************************************************)
(* C15.  In a run whose format is not xmp, no sidecar is created or        *)
(* deleted and every call returns failure; when the run is not cancelled   *)
(* errorCount is the batch size and processedCount is 0.                   *)
(***************************************************************************)
C15_UnsupportedFormatFailsEveryImage ==
    lower(format_type) # STR_xmp =>
        /\ disk = disk_before
        /\ processed_count = 0
        /\ EventsOf("sidecars_generated") = {}
        /\ \A i \in Units :
               /\ futures[i].st = "FINISHED" => futures[i].ret = "false"
               /\ Range(futures[i].ops) \subseteq {"read_tool", "read_warning"}
        /\ \A e \in Finished :
               ~e.cancelled => e.errors = Len(files) /\ e.processed = 0

\* An uncancelled png run of two images, with overwrite on and a sidecar
\* in place, has ended.
C15_Witness ==
    /\ lower(format_type) # STR_xmp
    /\ Len(files) = 2
    /\ overwrite
    /\ \E p \in DOMAIN disk : disk[p] = Old
    /\ \E e \in Finished : ~e.cancelled /\ e.errors = 2

(***************************************************************************)
(* C16.  The result of filter_tags is a subsequence of its input, in the   *)
(* same order and with the original casing, and holds no element whose     *)
(* lowercased, trimmed form is in the blacklist.                           *)
(***************************************************************************)
\* a is b with some elements left out.
RECURSIVE IsSubsequence(_, _)
IsSubsequence(a, b) ==
    IF a = <<>> THEN TRUE
    ELSE IF b = <<>> THEN FALSE
    ELSE IF Head(a) = Head(b) THEN IsSubsequence(Tail(a), Tail(b))
    ELSE IsSubsequence(a, Tail(b))

\* The units whose call has applied filter_tags to a non-empty list.
Filtered == {i \in Units : futures[i].st \in {"RUNNING", "FINISHED"} /\ files[i].tags # <<>>}

C16_FilterKeepsOrderAndDropsBlacklisted ==
    \A i \in Filtered :
        /\ IsSubsequence(futures[i].tags, files[i].tags)
        /\ \A k \in 1..Len(futures[i].tags) :
               strip(lower(futures[i].tags[k])) \notin LoadedBlacklist

\* A list of two tags has been filtered down to its first.
C16_Witness ==
    /\ 1 \in Filtered
    /\ files[1].tags = <<TAG_orange_cat, TAG_blurry>>
    /\ futures[1].tags = <<TAG_orange_cat>>

(***************************************************************************)
(* C17.  The blacklist built by _load_blacklist is the union of the        *)
(* default list, the lowercased and trimmed custom tags and the lowercased *)
(* and trimmed entries of the blacklist file (its lines that are not blank *)
(* and do not start with '#'); with blacklist_file "DISABLED" it is empty  *)
(* whatever the custom tags.                                               *)
(***************************************************************************)
Generator == pc # "start"

CustomEntries ==
    {lower(strip(t)) : t \in {u \in Range(custom_blacklist_tags) : strip(u) # <<>>}}

FileIsRead ==
    blacklist_file # <<>> /\ blacklist_on_disk.exists /\ blacklist_on_disk.readable

FileEntries ==
    {lower(strip(l)) :
        l \in {m \in Range(blacklist_on_disk.lines) : strip(m) # <<>> /\ Head(m) # 35}}

C17_BlacklistIsUnionOrEmptyWhenDisabled ==
    Generator =>
        IF blacklist_file = STR_DISABLED
        THEN blacklist = {}
        ELSE blacklist = default_blacklist \cup CustomEntries
                             \cup (IF FileIsRead THEN FileEntries ELSE {})

\* A generator built from custom tags and a file that was read: "cat" and
\* "dog" are blacklisted, the comment is not.
C17_Witness ==
    /\ Generator
    /\ FileIsRead
    /\ custom_blacklist_tags = <<TAG_Cat_padded, TAG_blank>>
    /\ TAG_cat \in blacklist
    /\ TAG_dog \in blacklist
    /\ Cardinality(blacklist) = Cardinality(default_blacklist) + 3

(***************************************************************************)
(* C18.  filter_tags applied to a list that filter_tags returned, with the *)
(* same blacklist, returns that list.                                      *)
(***************************************************************************)
C18_FilterIsIdempotent ==
    \A i \in Filtered :
        filter_tags(futures[i].tags, LoadedBlacklist) = futures[i].tags

\* A list that the filter shortened, but not to nothing, has been filtered.
C18_Witness ==
    /\ 1 \in Filtered
    /\ futures[1].tags # <<>>
    /\ Len(futures[1].tags) < Len(files[1].tags)

(***************************************************************************)
(* C19.  When the blacklist file is missing or reading it raises,          *)
(* _load_blacklist returns exactly the default set united with the custom  *)
(* tags: nothing of the file, and not the empty set.  (It does not raise:  *)
(* lines 58-60 catch every exception, and the generator is built.)         *)
(***************************************************************************)
FileFailsOpen ==
    /\ blacklist_file \notin {<<>>, STR_DISABLED}
    /\ ~blacklist_on_disk.exists \/ ~blacklist_on_disk.readable

C19_BlacklistFailsOpen ==
    Generator /\ FileFailsOpen => blacklist = default_blacklist \cup CustomEntries

\* A generator was built although reading the file raised part of the way,
\* and the run is over.
C19_Witness ==
    /\ pc = "done"
    /\ FileFailsOpen
    /\ blacklist_on_disk.exists
    /\ blacklist_on_disk.lines # <<>>
    /\ custom_blacklist_tags = <<TAG_Cat_padded, TAG_blank>>

(***************************************************************************)
(* C20.  For a file whose name needs a safe copy, once the temporary copy  *)
(* was made and cleaned up, in the read stage and in the write stage,      *)
(* neither the temporary file nor its directory is on disk.                *)
(***************************************************************************)
CopyEntries(i) == {t \in TempsOf(i) : t.what \in {"dir", "copy"}}

C20_SafeCopyRoundTripLeavesNothing ==
    \A i \in Units :
        /\ _has_unicode_surrogates(files[i].path.name)
        /\ futures[i].st = "FINISHED"
        => CopyEntries(i) = {}

(***************************************************************************)
(* C21.  A failure of the read stage (tool missing, non-zero exit,         *)
(* decoding error) does not leave read_existing_metadata and does not by   *)
(* itself make generate_sidecar fail: the write invocation is attempted    *)
(* after it, and the call ends as that invocation and the final move       *)
(* decide.                                                                 *)
(***************************************************************************)
ReadFailed(i) == "read_warning" \in Range(futures[i].ops)

WriteInvocations(ops) ==
    SelectSeq(ops, LAMBDA o : o \in {"write_tool_direct", "write_tool_temp"})

C21_ReadFailureDoesNotFailTheCall ==
    \A i \in Units :
        futures[i].st = "FINISHED" /\ ReadFailed(i) /\ lower(format_type) = STR_xmp =>
            /\ Len(WriteInvocations(futures[i].ops)) = 1
            /\ \E k \in 1..Len(futures[i].ops) :
                   /\ futures[i].ops[k] = "read_warning"
                   /\ futures[i].ops[k + 1] \in {"write_tool_direct", "write_tool_temp"}
            /\ Destination(i) = Written("new", i) => futures[i].ret = "true"

\* The read stage failed and the call returned success with the new
\* sidecar in place.
C21_Witness ==
    /\ futures[1].st = "FINISHED"
    /\ ReadFailed(1)
    /\ futures[1].ret = "true"
    /\ Destination(1) = Written("new", 1)

(***************************************************************************)
(* C22.  On cancellation an image whose unit never started is counted in   *)
(* neither counter and has no log line: errorCount counts the units that   *)
(* returned a failure outcome and were consumed by the drain loop.         *)
(***************************************************************************)
NeverStarted == {i \in Units : futures[i].st \in {"NONE", "PENDING", "CANCELLED"}}

ConsumedFailures ==
    {i \in ConsumedUnits : futures[i].st = "FINISHED" /\ futures[i].ret # "true"}

C22_SkippedUnitsAreNotErrors ==
    /\ NeverStarted \cap ConsumedUnits = {}
    /\ error_count = Cardinality(ConsumedFailures)
    /\ processed_count + error_count = Cardinality(ConsumedUnits)
    /\ \A e \in Finished :
           /\ e.errors = Cardinality(ConsumedFailures)
           /\ e.processed + e.errors <= Len(files) - Cardinality(NeverStarted)

\* A cancelled run has ended with one unit abandoned before it started;
\* nothing was counted.
C22_Witness ==
    /\ \E e \in Finished : e.cancelled /\ e.errors = 0 /\ e.processed = 0
    /\ \E i \in Units : futures[i].st = "CANCELLED"
    /\ \E i \in Units : futures[i].st = "FINISHED" /\ futures[i].ret = "false"

(***************************************************************************)
(* C23.  When the tool wrote to a temporary output and exited with         *)
(* success, and the move of that output to the destination then fails,     *)
(* generate_sidecar does not raise and returns True.                       *)
(***************************************************************************)
MoveFailed(i) ==
    \E k \in 1..Len(futures[i].ops) :
        futures[i].ops[k] \in {"move_fail", "replace_unlink_fail"}

C23_FailedMoveIsNotAFailedWrite ==
    \A i \in Units :
        /\ futures[i].st = "FINISHED"
        /\ "write_tool_temp" \in Range(futures[i].ops)
        /\ futures[i].exit = "ok"
        /\ MoveFailed(i)
        => futures[i].ret = "true"

\* The tool has written the temporary output, shutil.move has raised and the
\* call has returned True although nothing new is at the destination.
C23_Witness ==
    /\ futures[1].st = "FINISHED"
    /\ futures[1].exit = "ok"
    /\ "move_fail" \in Range(futures[1].ops)
    /\ futures[1].ret = "true"
    /\ Destination(1) = Absent

(***************************************************************************)
(* C24.  At every moment at most min(8, available parallelism) worker      *)
(* units execute generate_sidecar, and the drain loop consumes the         *)
(* completions in the order they finish, not in submission order.          *)
(***************************************************************************)
\* The units in the order the drain loop consumed them.
ConsumedOrder == [k \in 1..Len(AllLines) |-> AllLines[k].img]

FinishOrder == [k \in 1..Len(finish_order) |-> finish_order[k].unit]

\* The units that finished once as_completed was waiting on them, in the
\* order they finished, and the ones that had finished before.
FinishedWaited ==
    LET late == SelectSeq(finish_order, LAMBDA f : f.waited)
    IN  [k \in 1..Len(late) |-> late[k].unit]

FinishedBefore == {finish_order[k].unit : k \in {n \in 1..Len(finish_order) : ~finish_order[n].waited}}

PoolIsBounded ==
    /\ max_workers <= MaxPoolWorkers
    /\ Cardinality(Running) <= max_workers

\* The claim as stated: violated.
C24_ConsumesInFinishOrder ==
    /\ PoolIsBounded
    /\ IsSubsequence(ConsumedOrder, FinishOrder)

\* Two units finished, 1 then 2, before as_completed started; the loop
\* consumed 2 first.
C24_Counterexample ==
    /\ FinishOrder = <<1, 2>>
    /\ ConsumedOrder = <<2, 1>>

\* What holds: the pool is bounded; only finished units are consumed, each
\* once; the units that were already finished when as_completed started
\* come first, in an order of its own; the others follow in the order they
\* finished.
C24_ConsumesFinishedUnits ==
    /\ PoolIsBounded
    /\ ConsumedUnits \subseteq CompletedUnits
    /\ Cardinality(ConsumedUnits) = Len(ConsumedOrder)
    /\ \A k \in 1..Len(ConsumedOrder) :
           /\ k <= Cardinality(FinishedBefore) => ConsumedOrder[k] \in FinishedBefore
           /\ k > Cardinality(FinishedBefore) =>
                  /\ k - Cardinality(FinishedBefore) <= Len(FinishedWaited)
                  /\ ConsumedOrder[k] = FinishedWaited[k - Cardinality(FinishedBefore)]

\* The pool is full with an image waiting, after one unit that finished
\* before as_completed started and one that finished later were consumed in
\* that order.
C24_Witness ==
    /\ \E e \in Finished : ~e.cancelled
    /\ Len(ConsumedOrder) = 2
    /\ FinishedBefore = {ConsumedOrder[1]}
    /\ FinishedWaited = <<ConsumedOrder[2]>>

\* Every worker of the pool is busy and an image waits in the queue.
C24_PoolFull ==
    /\ Cardinality(Running) = max_workers
    /\ work_queue # <<>>

(***************************************************************************)
(* C25.  Only the exact value "xmp" is accepted as the format: for every   *)
(* other value generate_sidecar returns failure, deletes no sidecar and    *)
(* does not invoke the tool in write mode.                                 *)
(***************************************************************************)
RejectedAsUnsupported(i) ==
    /\ futures[i].ret = "false"
    /\ UnlinkAttempts(futures[i].ops) = <<>>
    /\ WriteInvocations(futures[i].ops) = <<>>
    /\ disk = disk_before

\* The claim as stated: violated by "XMP".
C25_OnlyExactXmpIsAccepted ==
    \A i \in Units :
        futures[i].st = "FINISHED" /\ format_type # STR_xmp =>
            RejectedAsUnsupported(i)

\* What holds: the comparison ignores case.  "xmp" and "XMP" are both
\* accepted (the sidecar in the way is deleted, the tool invoked in write
\* mode); a value that is not xmp in any casing is rejected.
C25_XmpInAnyCaseIsAccepted ==
    \A i \in Units :
        futures[i].st = "FINISHED" =>
            /\ format_type \notin {STR_xmp, STR_XMP} => RejectedAsUnsupported(i)
            /\ format_type \in {STR_xmp, STR_XMP} =>
                   /\ ~futures[i].early =>
                          Len(WriteInvocations(futures[i].ops)) = 1
                   /\ /\ ~NoEligibleTags(i)
                      /\ overwrite
                      /\ disk_before[sidecar_path(files[i].path)] = Old
                      => UnlinkAttempts(futures[i].ops) # <<>>

\* With the format "XMP" and overwrite on, the sidecar in place was deleted
\* and a new one written.
C25_Witness ==
    /\ format_type = STR_XMP
    /\ futures[1].st = "FINISHED"
    /\ futures[1].ret = "true"
    /\ disk_before[sidecar_path(files[1].path)] = Old
    /\ Destination(1) = Written("new", 1)

(***************************************************************************)
(* C26.  The write invocation holds, for each filtered tag and in the      *)
(* filtered order, exactly one append directive in each of the four tag    *)
(* locations, 4 x len(filtered tags) append directives in all, and none    *)
(* names a tag whose lowercased, trimmed form is in the active blacklist.  *)
(***************************************************************************)
\* An argument with "+=" in it.
IsAppendDirective(d) ==
    \E k \in 1..(Len(d) - 1) : d[k] = 43 /\ d[k + 1] = 61

AppendDirectives(cmd) == SelectSeq(cmd, IsAppendDirective)

\* The tags named by the directives of one location, in order.
NamedTags(cmd, prefix) ==
    LET at == SelectSeq(cmd, LAMBDA d : startswith(d, prefix))
    IN  [k \in 1..Len(at) |-> SubSeq(at[k], Len(prefix) + 1, Len(at[k]))]

\* The most recent write invocation was that of unit i.
WroteWith(i) == WriteInvocations(futures[i].ops) # <<>> /\ exiftool_cmd.unit = i

C26_FourDirectivesPerFilteredTag ==
    \A i \in Units :
        WroteWith(i) =>
            LET cmd == exiftool_cmd.args
                kept == filter_tags(files[i].tags, blacklist)
            IN  /\ Len(AppendDirectives(cmd)) = 4 * Len(kept)
                /\ \A n \in 1..4 :
                       /\ NamedTags(cmd, tag_locations[n]) = kept
                       /\ \A k \in 1..Len(kept) :
                              strip(lower(NamedTags(cmd, tag_locations[n])[k]))
                                  \notin blacklist

\* The tool was invoked for an image with two tags of which the blacklist
\* took one: four directives.
C26_Witness ==
    /\ WroteWith(1)
    /\ futures[1].ret = "true"
    /\ Len(files[1].tags) = 2
    /\ Len(exiftool_cmd.args) = 4
    /\ blacklist # {}

(***************************************************************************)
(* C27.  In read_existing_metadata each RegionRectangle, RegionAreaX/Y/W/H *)
(* and RegionAppliedToDimensionsW/H/Unit line is attached to the face      *)
(* record of the most recently seen face name (the last RegionName or      *)
(* RegionPersonDisplayName line before it), also with several faces.       *)
(* Violated.                                                               *)
(***************************************************************************)
\* The most recent call that parsed the output of the read tool was that
\* of unit i.
HasParsed(i) ==
    /\ futures[i].st = "FINISHED"
    /\ ~futures[i].early
    /\ ~ReadFailed(i)
    /\ existing_metadata.unit = i

OutputLine(k) == strip(exif_stdout[k])

\* The face name line k gives, or <<>> when it is not a line of a name.
FaceNameAt(k) ==
    IF contains(OutputLine(k), STR_RegionName)
           \/ contains(OutputLine(k), STR_RegionPersonDisplayName)
    THEN field_value(OutputLine(k), {STR_RegionName, STR_RegionPersonDisplayName})
    ELSE <<>>

\* Line k is a line of the region field n (an index of region_fields).
IsRegionLine(k, n) ==
    /\ FaceNameAt(k) = <<>>
    /\ contains(OutputLine(k), region_fields[n].text)
    /\ \A j \in 1..(n - 1) : ~contains(OutputLine(k), region_fields[j].text)
    /\ field_value(OutputLine(k), {region_fields[n].text}) # <<>>

\* The face name most recently seen before line k, <<>> if none.
MostRecentFace(k) ==
    LET J == {j \in 1..(k - 1) : FaceNameAt(j) # <<>>}
    IN  IF J = {} THEN <<>>
        ELSE FaceNameAt(CHOOSE x \in J : \A y \in J : x >= y)

C27_RegionLinesGoToMostRecentFace ==
    \A i \in Units :
        HasParsed(i) =>
            \A r \in Range(existing_metadata.record.face_regions) :
                \A n \in 1..Len(region_fields) :
                    LET K == {k \in 1..Len(exif_stdout) :
                                 IsRegionLine(k, n) /\ MostRecentFace(k) = r.name}
                    IN  r.set[region_fields[n].key] =
                            IF K = {} THEN <<>>
                            ELSE field_value(
                                     OutputLine(CHOOSE x \in K : \A y \in K : x >= y),
                                     {region_fields[n].text})

(***************************************************************************)
(* C28.  In read_existing_metadata a line contributes to existing_tags or  *)
(* hierarchical_subjects only when its key is one of Keywords, Subject,    *)
(* TagsList, HierarchicalSubject; for such a line the rules apply in order *)
(* (a value of four integers is skipped; a value with '|' goes to the      *)
(* hierarchical subjects; a value with '/' that does not start with http   *)
(* goes there with '|' for '/'; any other goes to existing_tags), and      *)
(* neither list holds a duplicate.  Violated.                              *)
(***************************************************************************)
\* The key of a line: what precedes its first colon, without the group in
\* brackets.
LineKey(line) ==
    LET K == {k \in 1..Len(line) : line[k] = 58}
        key == IF K = {} THEN line
               ELSE strip(SubSeq(line, 1, (CHOOSE x \in K : \A y \in K : x <= y) - 1))
        B == {k \in 1..Len(key) : key[k] = 93}
    IN  IF B = {} THEN key
        ELSE strip(SubSeq(key, (CHOOSE x \in B : \A y \in B : x <= y) + 1, Len(key)))

TagKeyLines == {k \in 1..Len(exif_stdout) : LineKey(OutputLine(k)) \in tag_fields}

TagValueAt(k) == colon_value(OutputLine(k))

OnlyTagKeysContribute(m) ==
    /\ \A t \in Range(m.existing_tags) :
           \E k \in TagKeyLines : TagValueAt(k) = t
    /\ \A t \in Range(m.hierarchical_subjects) :
           \E k \in TagKeyLines :
               TagValueAt(k) = t \/ replace_slash(TagValueAt(k)) = t

TagRulesInOrder(m) ==
    \A k \in TagKeyLines :
        LET v == TagValueAt(k)
        IN  v \notin {<<>>, STR_none} =>
                IF is_four_integers(v)
                THEN v \notin Range(m.existing_tags) \cup Range(m.hierarchical_subjects)
                ELSE IF 124 \in Range(v)
                THEN v \in Range(m.hierarchical_subjects)
                ELSE IF 47 \in Range(v) /\ ~startswith(v, STR_http)
                THEN replace_slash(v) \in Range(m.hierarchical_subjects)
                ELSE v \in Range(m.existing_tags)

NoDuplicateTags(m) ==
    /\ Cardinality(Range(m.existing_tags)) = Len(m.existing_tags)
    /\ Cardinality(Range(m.hierarchical_subjects)) = Len(m.hierarchical_subjects)

C28_OnlyTagKeysContribute ==
    \A i \in Units :
        HasParsed(i) =>
            /\ OnlyTagKeysContribute(existing_metadata.record)
            /\ TagRulesInOrder(existing_metadata.record)
            /\ NoDuplicateTags(existing_metadata.record)

(***************************************************************************)
(* C29.  When generation_finished is emitted no worker unit of the run is  *)
(* still executing: a cancelled run first waits for every unit in flight   *)
(* to return, with every unit still pending cancelled, and only then emits *)
(* its terminal events.                                                    *)
(***************************************************************************)
C29_NoUnitRunsAtTheTerminalEvent ==
    Finished # {} =>
        /\ Running = {}
        /\ work_queue = <<>>
        /\ \A i \in Units : futures[i].st \in {"FINISHED", "CANCELLED"}
        /\ \A e \in Finished :
               ~e.cancelled => \A i \in Units : futures[i].st = "FINISHED"

\* A cancelled run of two images has ended: both units ran to their end, the
\* second after as_completed had started, and none was consumed.
C29_Witness ==
    /\ \E e \in Finished : e.cancelled
    /\ Len(files) = 2
    /\ \A i \in Units : futures[i].st = "FINISHED"
    /\ ConsumedUnits = {}
    /\ finish_order[2].waited

(***************************************************************************)
(* C30.  The list carried by sidecars_generated holds every image for      *)
(* which a worker unit of the run returned success, also when the run is   *)
(* cancelled while units are in flight.  Violated.                         *)
(***************************************************************************)
\* The images carried by the sidecars_generated signals emitted so far.
ReportedImages ==
    UNION {Range(events[k].images) : k \in EventsOf("sidecars_generated")}

SucceededUnits == {i \in Units : futures[i].st = "FINISHED" /\ futures[i].ret = "true"}

C30_SidecarsGeneratedCarriesEverySuccess ==
    pc = "done" => SucceededUnits \subseteq ReportedImages

(***************************************************************************)
(* C31.  Worker units of distinct images of one batch never delete, write  *)
(* or replace the same sidecar path: the destinations of the units that    *)
(* run at the same time are pairwise distinct, for every batch of distinct *)
(* image paths.  Violated.                                                 *)
(***************************************************************************)
DistinctImagePaths ==
    \A i, j \in Units : i # j => files[i].path # files[j].path

C31_ConcurrentUnitsTouchDistinctSidecars ==
    DistinctImagePaths =>
        \A i, j \in Running :
            i # j => sidecar_path(files[i].path) # sidecar_path(files[j].path)


(***************************************************************************)
(* C32.  generate_sidecar and read_existing_metadata never delete the      *)
(* source image: _cleanup_temp_file is only ever given the temporary copy, *)
(* never the path of the image, also when the copy failed and the path of  *)
(* the image is what _create_temp_copy_for_exiftool returned.              *)
(***************************************************************************)
ImageUnlinked(i) == "unlink_image" \in Range(futures[i].ops)

C32_CleanupNeverTouchesTheImage ==
    \A i \in Units : ~ImageUnlinked(i)

\* A call on an image whose name needs a copy has returned, no copy could be
\* made at either stage (only the directories of mkdtemp are left), the
\* tools were run and the image was not unlinked.
C32_Witness ==
    /\ futures[1].st = "FINISHED"
    /\ _has_unicode_surrogates(files[1].path.name)
    /\ Len(ToolInvocations(futures[1].ops)) = 2
    /\ Temp(1, "read", "dir") \in temps
    /\ Temp(1, "read", "copy") \notin temps
    /\ Temp(1, "write", "dir") \in temps
    /\ Temp(1, "write", "copy") \notin temps
    /\ ~ImageUnlinked(1)

(***************************************************************************)
(* C33.  In every run, cancelled or not, each completion the drain loop    *)
(* consumes gives exactly one log line; every line is emitted in exactly   *)
(* one log_updated signal, before generation_finished; the lines emitted   *)
(* are processed + errors in number; and no log_updated signal carries     *)
(* more than BATCH_SIZE lines.                                             *)
(***************************************************************************)
OneLinePerConsumed ==
    /\ Len(AllLines) = completed
    /\ Cardinality(ConsumedUnits) = Len(AllLines)
    /\ completed = processed_count + error_count

LogSignalsAreBounded ==
    \A k \in EventsOf("log_updated") : Len(events[k].lines) \in 1..BATCH_SIZE

AllEmittedBeforeFinished ==
    \A k \in EventsOf("generation_finished") :
        /\ k = Len(events)
        /\ log_batch = <<>> \/ events[k - 1] = LogUpdated(log_batch)
        /\ Len(EmittedLines(k)) = completed
        /\ Len(EmittedLines(k)) = events[k].processed + events[k].errors

C33_EveryLineIsEmittedOnce ==
    /\ OneLinePerConsumed
    /\ LogSignalsAreBounded
    /\ AllEmittedBeforeFinished

\* A run of more than BATCH_SIZE images has ended: one signal with
\* BATCH_SIZE lines, one with the lines that were left, and
\* generation_finished after both.
C33_Witness ==
    /\ pc = "done"
    /\ Len(files) = BigBatch
    /\ \E j, k \in EventsOf("log_updated") :
           /\ j < k
           /\ Len(events[j].lines) = BATCH_SIZE
           /\ Len(events[k].lines) = BigBatch - BATCH_SIZE
    /\ Len(EmittedLines(Len(events))) = BigBatch

\* A cancelled run has ended with the lines left in log_batch emitted by
\* line 86, fewer than the images of the batch.
C33_CancelledRunEmitsTheRest ==
    /\ pc = "done"
    /\ \E e \in Finished : e.cancelled
    /\ log_batch # <<>>
    /\ events[Len(events) - 1] = LogUpdated(log_batch)
    /\ completed < Len(files)

(***************************************************************************)
(* C34.  While a run is in progress (is_generating) and no cancel has been *)
(* requested, the generate/cancel button stays enabled whatever selection  *)
(* changes and checkbox toggles occur; after a cancel request it stays     *)
(* disabled until on_generation_finished; and no second thread is started  *)
(* while is_generating is true.  Violated: update_file_count sets the      *)
(* button from the selection alone.                                        *)
(***************************************************************************)
\* stop() has been called on the thread of the run in progress.
CancelRequested == cancelled

EnabledWhileRunning ==
    is_generating /\ ~CancelRequested => button_enabled

DisabledAfterCancel ==
    is_generating /\ CancelRequested => ~button_enabled

NoSecondThread ==
    [][threads_started' # threads_started => ~is_generating]_vars

C34_ButtonStateDuringARun ==
    /\ [](EnabledWhileRunning /\ DisabledAfterCancel)
    /\ NoSecondThread

\* The parts of C34, one by one.
C34_ButtonStaysEnabled == EnabledWhileRunning

C34_ButtonStaysDisabled == DisabledAfterCancel

C34_OneThreadAtATime == NoSecondThread

=============================================================================
